---- MODULE Spec2Model ----
(***************************************************************************)
(* Student Performance Tracker: the grading function, the validators, the  *)
(* single-file application (app.py) over its own SQLite tables, and the    *)
(* multi-page application (pages/) over the Student/Subject/Marks tables.  *)
(*                                                                         *)
(* Numbers.  Marks are integers.  A percentage is an exact rational        *)
(* [n |-> numerator, d |-> denominator] with d > 0, so that a threshold    *)
(* test "percentage >= 90" is n >= 90 * d with no rounding.  A value that  *)
(* the code rounds to one decimal is an integer number of tenths.          *)
(***************************************************************************)
EXTENDS Integers, Sequences, FiniteSets, TLC

VARIABLES
    gIn,      \* grading: the input of calculate_grade under test
    gOut,     \* grading: the result of the call
    vIn,      \* validators: the arguments under test
    vOut,     \* validators: the returned (is_valid, errors)
    appStudents,       \* app.py: ids of the rows of table students
    appNextStudentId,  \* app.py: next AUTOINCREMENT id of table students
    appSubjects,       \* app.py: ids of the rows of table subjects
    appMarks,          \* app.py: rows of table marks, in rowid order
    confirm_delete,    \* app.py: st.session_state.confirm_delete ({} when unset)
    appOut,            \* app.py: what the last script run displayed
    storage,           \* pages: the connection in use and the schema of its tables
    Student,           \* pages: student_id of the rows of table Student
    nextStudentId,     \* pages: next AUTOINCREMENT student_id
    Subject,           \* pages: subject_id of the rows of table Subject
    nextSubjectId,     \* pages: next AUTOINCREMENT subject_id
    Marks,             \* pages: rows of table Marks, in mark_id order
    pgConfirm,         \* pages: the keys k with st.session_state["confirm_" + k] True
    pgOut,             \* pages: what the last script run computed and displayed
    sbApp,             \* subjects: the application whose subject table this is
    sbRows,            \* subjects: rows (id, name, code) of the subject table, in id order
    sbNextId,          \* subjects: next AUTOINCREMENT id
    sbOut,             \* subjects: what the last add-subject run did and displayed
    rpApp,             \* reports: the application whose report is computed
    rpStudents,        \* reports: ids of the stored students
    rpRows,            \* reports: the stored marks rows the report is computed from
    rpOut,             \* reports: what the last report run displayed
    pnSession,         \* pagination: st.session_state[page_key + "_current"] (0 when absent)
    pnOut,             \* pagination: the inputs and the result of the last paginate_data call
    sdStore,           \* seeding: the program and the connection whose database is seeded
    sdStudent,         \* seeding: ids of the stored students
    sdNextStudent,     \* seeding: next auto-increment student id
    sdSubject,         \* seeding: rows (id, name) of the subject table
    sdNextSubject,     \* seeding: next auto-increment subject id
    sdMarks,           \* seeding: rows of the marks table, in insertion order
    sdOut,             \* seeding: what the last run did
    dbManager,         \* db helpers: the module in use, db/connection.py or db/mysql_connection.py
    dbConn,            \* db helpers: what the cached get_db_connection holds
    dbOut,             \* db helpers: the last call, its failures and its outcome
    bgIn,              \* status badge: the arguments of create_status_badge
    bgOut              \* status badge: the badge it returned

vars == <<gIn, gOut, vIn, vOut,
          appStudents, appNextStudentId, appSubjects, appMarks, confirm_delete, appOut,
          storage, Student, nextStudentId, Subject, nextSubjectId, Marks, pgConfirm, pgOut,
          sbApp, sbRows, sbNextId, sbOut,
          rpApp, rpStudents, rpRows, rpOut,
          pnSession, pnOut,
          sdStore, sdStudent, sdNextStudent, sdSubject, sdNextSubject, sdMarks, sdOut,
          dbManager, dbConn, dbOut,
          bgIn, bgOut>>

gradeVars == <<gIn, gOut>>
validateVars == <<vIn, vOut>>
appVars == <<appStudents, appNextStudentId, appSubjects, appMarks, confirm_delete, appOut>>
pageVars == <<storage, Student, nextStudentId, Subject, nextSubjectId, Marks, pgConfirm, pgOut>>
subjVars == <<sbApp, sbRows, sbNextId, sbOut>>
reportVars == <<rpApp, rpStudents, rpRows, rpOut>>
paginateVars == <<pnSession, pnOut>>
seedVars == <<sdStore, sdStudent, sdNextStudent, sdSubject, sdNextSubject, sdMarks, sdOut>>
dbVars == <<dbManager, dbConn, dbOut>>
badgeVars == <<bgIn, bgOut>>
helperVars == <<paginateVars, seedVars, dbVars, badgeVars>>

----------------------------------------------------------------------------
(* Rationals *)

Rat(n, d) == [n |-> n, d |-> d]

\* p >= k for an integer k
RatGE(p, k) == p.n >= k * p.d

\* p < k for an integer k
RatLT(p, k) == p.n < k * p.d

\* p <= q
RatLE(p, q) == p.n * q.d <= q.n * p.d

\* p + q
RatAdd(p, q) == Rat(p.n * q.d + q.n * p.d, p.d * q.d)

\* p / k for an integer k > 0
RatDiv(p, k) == Rat(p.n, p.d * k)

\* Python's round(x, digits) and f"{x:.<digits>f}" of a non-negative rational,
\* as a number of units of 1/scale (scale = 10 for one decimal): round half to even
RoundHalfEven(p, scale) ==
    LET num == p.n * scale
        q == num \div p.d
        r == num % p.d
    IN  IF 2 * r > p.d THEN q + 1
        ELSE IF 2 * r < p.d THEN q
        ELSE IF q % 2 = 0 THEN q ELSE q + 1

\* f"{x:.1f}", in tenths
RoundTenths(p) == RoundHalfEven(p, 10)

\* SQLite's ROUND(x, 1) of a non-negative rational, in tenths: half away from zero
SqlRound1(p) ==
    LET num == p.n * 10
        q == num \div p.d
        r == num % p.d
    IN  IF 2 * r >= p.d THEN q + 1 ELSE q

\* (marks / max_marks) * 100
Percentage(marks, max_marks) == Rat(100 * marks, max_marks)

----------------------------------------------------------------------------
(* app.py: calculate_grade *)

\* a grading function whose 85 and 80 branches are exchanged
calculate_grade_swapped(percentage) ==
    IF RatGE(percentage, 90) THEN "A+"
    ELSE IF RatGE(percentage, 85) THEN "B+"
    ELSE IF RatGE(percentage, 80) THEN "A"
    ELSE IF RatGE(percentage, 75) THEN "B"
    ELSE IF RatGE(percentage, 70) THEN "C+"
    ELSE IF RatGE(percentage, 65) THEN "C"
    ELSE IF RatGE(percentage, 60) THEN "D"
    ELSE "F"

calculate_grade(percentage) ==
    IF RatGE(percentage, 90) THEN "A+"
    ELSE IF RatGE(percentage, 85) THEN "A"
    ELSE IF RatGE(percentage, 80) THEN "B+"
    ELSE IF RatGE(percentage, 75) THEN "B"
    ELSE IF RatGE(percentage, 70) THEN "C+"
    ELSE IF RatGE(percentage, 65) THEN "C"
    ELSE IF RatGE(percentage, 60) THEN "D"
    ELSE "F"

\* The grading system the pages document in their help text
DocumentedGrade(percentage) ==
    IF RatGE(percentage, 90) THEN "A+"
    ELSE IF RatGE(percentage, 80) THEN "A"
    ELSE IF RatGE(percentage, 70) THEN "B+"
    ELSE IF RatGE(percentage, 60) THEN "B"
    ELSE IF RatGE(percentage, 50) THEN "C+"
    ELSE IF RatGE(percentage, 40) THEN "C"
    ELSE "F"

\* The grade labels the badge table of create_grade_badge knows
grade_colors == {"A+", "A", "B+", "B", "C+", "C", "F"}

----------------------------------------------------------------------------
(* Grading under test: inputs are percentages in tenths over a range that  *)
(* extends past [0, 100], and the percentages of valid (marks, max_marks). *)

MinPctTenths == 50      \* percentages from -5.0 ...
MaxPctTenths == 1050    \* ... to 105.0, in steps of 0.1
MaxGradeMarks == 20     \* max_marks of the (marks, max_marks) inputs

NoMarks == [given |-> FALSE, marks |-> 0, max_marks |-> 1]

GradeInputs ==
    {[pct |-> Rat(k, 10), from |-> NoMarks] : k \in (0 - MinPctTenths)..MaxPctTenths}
    \cup
    {[pct |-> Percentage(m, M),
      from |-> [given |-> TRUE, marks |-> m, max_marks |-> M]] :
        m \in 0..MaxGradeMarks, M \in 1..MaxGradeMarks}

\* calculate_grade(percentage) on a percentage given directly
GradePercentage ==
    /\ ~gOut.done
    /\ ~gIn.from.given
    /\ gOut' = [done |-> TRUE, grade |-> calculate_grade(gIn.pct)]
    /\ UNCHANGED gIn

\* manage_marks: percentage = (marks / max_marks) * 100; calculate_grade(percentage)
GradeMarks ==
    /\ ~gOut.done
    /\ gIn.from.given
    /\ gOut' = [done |-> TRUE,
                grade |-> calculate_grade(Percentage(gIn.from.marks, gIn.from.max_marks))]
    /\ UNCHANGED gIn

GradeNext ==
    \/ GradePercentage /\ UNCHANGED <<validateVars, appVars, pageVars, subjVars, reportVars, helperVars>>
    \/ GradeMarks /\ UNCHANGED <<validateVars, appVars, pageVars, subjVars, reportVars, helperVars>>

----------------------------------------------------------------------------
(* utils/validations.py *)

\* An argument of a validator: a number, or a value int() rejects
Num(v) == [numeric |-> TRUE, v |-> v]
NotANumber == [numeric |-> FALSE, v |-> 0]

MaxMarksLimit == 1000

\* validate_marks with the marks_obtained > max_marks check left out
validate_marks_no_relation(marks_obtained, max_marks) ==
    IF ~marks_obtained.numeric
    THEN [valid |-> FALSE, errors |-> <<"Marks must be a valid number">>]
    ELSE
    LET e1 == IF marks_obtained.v < 0 THEN <<"Marks cannot be negative">> ELSE <<>>
    IN  IF ~max_marks.numeric
        THEN [valid |-> FALSE,
              errors |-> e1 \o <<"Maximum marks must be a valid number">>]
        ELSE
        LET e2 == IF max_marks.v <= 0
                  THEN e1 \o <<"Maximum marks must be greater than 0">>
                  ELSE IF max_marks.v > MaxMarksLimit
                  THEN e1 \o <<"Maximum marks seems too high">>
                  ELSE e1
        IN  [valid |-> Len(e2) = 0, errors |-> e2]

validate_marks(marks_obtained, max_marks) ==
    IF ~marks_obtained.numeric
    THEN [valid |-> FALSE, errors |-> <<"Marks must be a valid number">>]
    ELSE
    LET e1 == IF marks_obtained.v < 0 THEN <<"Marks cannot be negative">> ELSE <<>>
    IN  IF ~max_marks.numeric
        THEN [valid |-> FALSE,
              errors |-> e1 \o <<"Maximum marks must be a valid number">>]
        ELSE
        LET e2 == IF max_marks.v <= 0
                  THEN e1 \o <<"Maximum marks must be greater than 0">>
                  ELSE IF max_marks.v > MaxMarksLimit
                  THEN e1 \o <<"Maximum marks seems too high">>
                  ELSE e1
            e3 == IF marks_obtained.v > max_marks.v
                  THEN e2 \o <<"Marks obtained cannot exceed maximum marks">>
                  ELSE e2
        IN  [valid |-> Len(e3) = 0, errors |-> e3]

\* Dates are day numbers.  MinAssessmentDate is date(2020, 1, 1) and Today is
\* date.today(); day 0 is the last day before the minimum date.
MinAssessmentDate == 1
Today == 2

ADate(d) == [given |-> TRUE, d |-> d]
NoDate == [given |-> FALSE, d |-> 0]

validate_assessment_date(assessment_date) ==
    LET errors ==
            IF ~assessment_date.given THEN <<"Assessment date is required">>
            ELSE IF assessment_date.d > Today
            THEN <<"Assessment date cannot be in the future">>
            ELSE IF assessment_date.d < MinAssessmentDate
            THEN <<"Assessment date is too old">>
            ELSE <<>>
    IN  [valid |-> Len(errors) = 0, errors |-> errors]

(* Validators under test *)

ProbeSpan == 3   \* how far the probes reach around 0 and around the 1000 limit

ProbeValues ==
    {Num(k) : k \in ((0 - ProbeSpan)..ProbeSpan)
                    \cup ((MaxMarksLimit - ProbeSpan)..(MaxMarksLimit + ProbeSpan))}
    \cup {NotANumber}

ProbeDates == {ADate(d) : d \in 0..(Today + 1)} \cup {NoDate}

NoResult == [valid |-> FALSE, errors |-> <<>>]

\* is_valid_marks, marks_errors = validate_marks(...);
\* is_valid_date, date_errors = validate_assessment_date(...)
Validate ==
    /\ ~vOut.done
    /\ vOut' = [done |-> TRUE,
                marks |-> validate_marks(vIn.marks_obtained, vIn.max_marks),
                date |-> validate_assessment_date(vIn.assessment_date)]
    /\ UNCHANGED vIn

ValidateNext == Validate /\ UNCHANGED <<gradeVars, appVars, pageVars, subjVars, reportVars, helperVars>>

----------------------------------------------------------------------------
----------------------------------------------------------------------------
(* app.py: the single-file application over tables students, subjects, marks *)

NumSampleStudents == 1   \* sample students inserted by init_database (5 in the code)
NumSampleSubjects == 1   \* sample subjects inserted by init_database (6 in the code)
SampleMaxMarks == 100
MaxAppStudentId == 2     \* students are added while the next id is at most this
MaxAppRows == 2          \* marks are recorded while the table has fewer rows

\* round(random.uniform(60, 95), 1): the two ends of the range
SampleMarks == {60, 95}

\* st.number_input("Marks Obtained*", min_value=0.0, max_value=100.0)
AppMarksInputs == {0, 1, 2}
\* st.number_input("Maximum Marks", min_value=1.0): no upper limit
AppMaxMarksInputs == {1, 2}

MarkRow(student_id, subject_id, marks, max_marks) ==
    [student_id |-> student_id, subject_id |-> subject_id,
     marks |-> marks, max_marks |-> max_marks]

\* the marks rows of init_database: one per sample student and subject
\* (the code inserts three, one per exam type)
RECURSIVE SampleRows(_, _)
SampleRows(pairs, pick) ==
    IF pairs = <<>> THEN <<>>
    ELSE <<MarkRow(Head(pairs)[1], Head(pairs)[2], pick[Head(pairs)], SampleMaxMarks)>>
         \o SampleRows(Tail(pairs), pick)

RECURSIVE SamplePairs(_, _)
SamplePairs(student_id, subject_id) ==
    IF student_id > NumSampleStudents THEN <<>>
    ELSE IF subject_id > NumSampleSubjects THEN SamplePairs(student_id + 1, 1)
    ELSE <<(<<student_id, subject_id>>)>> \o SamplePairs(student_id, subject_id + 1)

\* SQL NULL / Python None, or a number
Null == [null |-> TRUE, val |-> Rat(0, 1)]
Value(p) == [null |-> FALSE, val |-> p]

RECURSIVE SumPct(_)
SumPct(rows) ==
    IF rows = <<>> THEN Rat(0, 1)
    ELSE RatAdd(Percentage(Head(rows).marks, Head(rows).max_marks), SumPct(Tail(rows)))

\* SELECT AVG(marks/max_marks*100): NULL over no rows
SqlAvgPct(rows) ==
    IF rows = <<>> THEN Null ELSE Value(RatDiv(SumPct(rows), Len(rows)))

RECURSIVE SumRoundedPct(_)
SumRoundedPct(rows) ==
    IF rows = <<>> THEN 0
    ELSE SqlRound1(Percentage(Head(rows).marks, Head(rows).max_marks))
         + SumRoundedPct(Tail(rows))

RowsOfStudent(rows, student_id) ==
    SelectSeq(rows, LAMBDA r : r.student_id = student_id)

NoTable == <<>>

AppOutput(page, raised, average, table) ==
    [page |-> page, raised |-> raised, average |-> average, table |-> table]

\* manage_students, tab "View Students": avg_performance and grade per student
StudentsView(students, rows) ==
    [s \in students |->
        LET avg_result == SqlAvgPct(RowsOfStudent(rows, s))
            avg_performance ==
                IF ~avg_result.null /\ avg_result.val.n # 0
                THEN avg_result.val ELSE Rat(0, 1)
        IN  [avg_performance |-> RoundTenths(avg_performance),
             grade |-> calculate_grade(avg_performance)]]

\* show_dashboard: f"{avg_performance:.1f}%" raises TypeError on None
ShowDashboard ==
    LET avg_performance == SqlAvgPct(appMarks)
    IN  /\ appOut' = IF avg_performance.null
                     THEN AppOutput("dashboard", TRUE, 0, NoTable)
                     ELSE AppOutput("dashboard", FALSE,
                                    RoundTenths(avg_performance.val), NoTable)
        /\ UNCHANGED <<appStudents, appNextStudentId, appSubjects, appMarks,
                       confirm_delete>>

\* manage_students with no button pressed
ViewStudents ==
    /\ appOut' = AppOutput("students", FALSE, 0, StudentsView(appStudents, appMarks))
    /\ UNCHANGED <<appStudents, appNextStudentId, appSubjects, appMarks,
                   confirm_delete>>

\* manage_students, "Add Student" submitted with a name; st.rerun()
AddStudent ==
    /\ appNextStudentId <= MaxAppStudentId
    /\ appStudents' = appStudents \cup {appNextStudentId}
    /\ appNextStudentId' = appNextStudentId + 1
    /\ appOut' = AppOutput("students", FALSE, 0, StudentsView(appStudents', appMarks))
    /\ UNCHANGED <<appSubjects, appMarks, confirm_delete>>

DeleteStudentSubmitAtOnce(student_id) ==
    /\ student_id \in appStudents
    /\ appMarks' = SelectSeq(appMarks, LAMBDA r : r.student_id # student_id)
    /\ appStudents' = appStudents \ {student_id}
    /\ confirm_delete' = {}
    /\ appOut' = AppOutput("students", FALSE, 0, StudentsView(appStudents', appMarks'))
    /\ UNCHANGED <<appNextStudentId, appSubjects>>

\* manage_students, "Delete Student" submitted for the selected student
DeleteStudentSubmit(student_id) ==
    /\ student_id \in appStudents
    /\ IF confirm_delete # {student_id}
       THEN /\ confirm_delete' = {student_id}
            /\ UNCHANGED <<appStudents, appMarks>>
       ELSE /\ appMarks' = SelectSeq(appMarks, LAMBDA r : r.student_id # student_id)
            /\ appStudents' = appStudents \ {student_id}
            /\ confirm_delete' = {}
    /\ appOut' = AppOutput("students", FALSE, 0, StudentsView(appStudents', appMarks'))
    /\ UNCHANGED <<appNextStudentId, appSubjects>>

\* manage_marks, "Record Marks" submitted; st.rerun()
RecordMarks(student_id, subject_id, marks, max_marks) ==
    /\ appStudents # {} /\ appSubjects # {}
    /\ student_id \in appStudents /\ subject_id \in appSubjects
    /\ Len(appMarks) < MaxAppRows
    /\ appMarks' = Append(appMarks, MarkRow(student_id, subject_id, marks, max_marks))
    /\ appOut' = AppOutput("marks", FALSE, 0, NoTable)
    /\ UNCHANGED <<appStudents, appNextStudentId, appSubjects, confirm_delete>>

\* show_reports, tab "Student Reports" for the selected student:
\* the mean of the rounded percentages of the student's rows
ShowStudentReport(student_id) ==
    /\ student_id \in appStudents
    /\ LET student_marks == RowsOfStudent(appMarks, student_id)
           avg_performance == Rat(SumRoundedPct(student_marks), 10 * Len(student_marks))
       IN  appOut' =
             IF student_marks = <<>>
             THEN AppOutput("reports", FALSE, 0, NoTable)
             ELSE AppOutput("reports", FALSE, RoundTenths(avg_performance),
                            [s \in {student_id} |->
                                [avg_performance |-> RoundTenths(avg_performance),
                                 grade |-> calculate_grade(avg_performance)]])
    /\ UNCHANGED <<appStudents, appNextStudentId, appSubjects, appMarks,
                   confirm_delete>>

\* show_analytics with "Export Summary Report" pressed:
\* round(avg_performance, 2) raises TypeError on None
ExportSummary ==
    LET avg_performance == SqlAvgPct(appMarks)
    IN  /\ appOut' = IF avg_performance.null
                     THEN AppOutput("analytics", TRUE, 0, NoTable)
                     ELSE AppOutput("analytics", FALSE,
                                    RoundHalfEven(avg_performance.val, 100), NoTable)
        /\ UNCHANGED <<appStudents, appNextStudentId, appSubjects, appMarks,
                       confirm_delete>>

AppNext ==
    \/ ShowDashboard /\ UNCHANGED <<gradeVars, validateVars, pageVars, subjVars, reportVars, helperVars>>
    \/ ViewStudents /\ UNCHANGED <<gradeVars, validateVars, pageVars, subjVars, reportVars, helperVars>>
    \/ AddStudent /\ UNCHANGED <<gradeVars, validateVars, pageVars, subjVars, reportVars, helperVars>>
    \/ \E s \in 1..MaxAppStudentId :
          DeleteStudentSubmit(s) /\ UNCHANGED <<gradeVars, validateVars, pageVars, subjVars, reportVars, helperVars>>
    \/ \E s \in 1..MaxAppStudentId, u \in 1..NumSampleSubjects,
          m \in AppMarksInputs, M \in AppMaxMarksInputs :
          RecordMarks(s, u, m, M) /\ UNCHANGED <<gradeVars, validateVars, pageVars, subjVars, reportVars, helperVars>>
    \/ \E s \in 1..MaxAppStudentId :
          ShowStudentReport(s) /\ UNCHANGED <<gradeVars, validateVars, pageVars, subjVars, reportVars, helperVars>>
    \/ ExportSummary /\ UNCHANGED <<gradeVars, validateVars, pageVars, subjVars, reportVars, helperVars>>

----------------------------------------------------------------------------
(* pages/: the multi-page application over tables Student, Subject, Marks.  *)
(* The classes Student, Subject and Marks (models/) are not part of the     *)
(* sources; their operations are modelled from the specification: plain     *)
(* inserts, updates and deletes of rows, and the summaries of section 4.2.  *)

MaxStudentId == 2    \* students are added while the next student_id is at most this
MaxSubjectId == 1    \* subjects are added while the next subject_id is at most this
MaxMarkRows == 2     \* marks are added while the table has fewer rows

\* st.number_input("Marks Obtained *", min_value=0, max_value=1000)
PageMarksInputs == {0, 2, 3}
\* st.number_input("Maximum Marks *", min_value=1, max_value=1000)
PageMaxMarksInputs == {2, 5}
\* st.date_input("Assessment Date *", max_value=date.today())
PageDateInputs == 0..Today

\* The connections the repository opens and the schema each finds:
\*   db/connection.py: SQLite with PRAGMA foreign_keys = ON, tables of its init_database;
\*   db/mysql_connection.py connected to MySQL, tables of db_init.create_tables;
\*   db/mysql_connection.py fallen back to sqlite3.connect (no PRAGMA), tables of
\*   db_init.create_sqlite_tables.
StorageConfigs ==
    {[connection |-> "sqlite_manager", schema |-> "init_database"],
     [connection |-> "mysql", schema |-> "create_tables"],
     [connection |-> "sqlite_fallback", schema |-> "create_sqlite_tables"]}

\* foreign keys are enforced by MySQL, and by SQLite only after PRAGMA foreign_keys = ON
ForeignKeysEnforced(st) == st.connection \in {"sqlite_manager", "mysql"}

\* the Marks foreign keys are declared ON DELETE CASCADE
OnDeleteCascade(st) == st.schema \in {"init_database", "create_tables"}

\* the Marks table has CHECK (marks_obtained >= 0 AND marks_obtained <= max_marks)
HasMarksCheck(st) == st.schema \in {"init_database", "create_tables"}

MarksRow(student_id, subject_id, marks_obtained, max_marks, assessment_date) ==
    [student_id |-> student_id, subject_id |-> subject_id,
     marks_obtained |-> marks_obtained, max_marks |-> max_marks,
     assessment_date |-> assessment_date]

\* INSERT / UPDATE of a Marks row is refused by a violated constraint
RowAllowed(st, students, subjects, row) ==
    /\ HasMarksCheck(st) =>
          (row.marks_obtained >= 0 /\ row.marks_obtained <= row.max_marks)
    /\ ForeignKeysEnforced(st) =>
          (row.student_id \in students /\ row.subject_id \in subjects)

\* DELETE of the Student or Subject row with this id: the rows of Marks that remain
MarksAfterParentDelete(st, rows, column, id) ==
    IF ForeignKeysEnforced(st) /\ OnDeleteCascade(st)
    THEN SelectSeq(rows, LAMBDA r : r[column] # id)
    ELSE rows

\* with foreign keys enforced and no ON DELETE action, a referenced parent row
\* cannot be deleted
ParentDeleteAllowed(st, rows, column, id) ==
    (ForeignKeysEnforced(st) /\ ~OnDeleteCascade(st)) =>
        \A i \in 1..Len(rows) : rows[i][column] # id

\* Marks.calculate_percentage: marks_obtained / max_marks * 100 to one decimal, in tenths
calculate_percentage(marks_obtained, max_marks) ==
    IF max_marks > 0 THEN RoundTenths(Percentage(marks_obtained, max_marks)) ELSE 0

\* Marks.calculate_grade on a percentage in tenths: the documented grading system
Marks_calculate_grade(percentage) == DocumentedGrade(Rat(percentage, 10))

\* "Pass" if percentage > 40 else "Fail"
StatusStrict(percentage) == IF percentage > 400 THEN "Pass" ELSE "Fail"

\* status = "Pass" if subject['percentage'] >= 40 else "Fail", percentage in tenths
Status(percentage) == IF percentage >= 400 THEN "Pass" ELSE "Fail"

RowsOf(rows, student_id) == SelectSeq(rows, LAMBDA r : r.student_id = student_id)

RECURSIVE TotalObtained(_)
TotalObtained(rows) ==
    IF rows = <<>> THEN 0 ELSE Head(rows).marks_obtained + TotalObtained(Tail(rows))

RECURSIVE TotalMax(_)
TotalMax(rows) ==
    IF rows = <<>> THEN 0 ELSE Head(rows).max_marks + TotalMax(Tail(rows))

\* Marks.get_student_summary: the aggregate of section 4.2
get_student_summary(rows, student_id) ==
    LET records == RowsOf(rows, student_id)
        overall == calculate_percentage(TotalObtained(records), TotalMax(records))
    IN  [total_subjects |-> Len(records),
         total_marks_obtained |-> TotalObtained(records),
         total_max_marks |-> TotalMax(records),
         overall_percentage |-> overall,
         overall_grade |-> Marks_calculate_grade(overall),
         subject_details |->
            [i \in 1..Len(records) |->
                LET pct == calculate_percentage(records[i].marks_obtained,
                                                records[i].max_marks)
                IN  [subject |-> records[i].subject_id,
                     marks_obtained |-> records[i].marks_obtained,
                     max_marks |-> records[i].max_marks,
                     percentage |-> pct,
                     grade |-> Marks_calculate_grade(pct)]]]

RECURSIVE SetToSeq(_)
SetToSeq(ids) ==
    IF ids = {} THEN <<>>
    ELSE LET least == CHOOSE x \in ids : \A y \in ids : x <= y
         IN  <<least>> \o SetToSeq(ids \ {least})

\* Marks.get_class_analytics: one summary per student with at least one record
get_class_analytics(students, rows) ==
    LET with_data == SetToSeq({st \in students : RowsOf(rows, st) # <<>>})
    IN  [total_students |-> Len(with_data),
         student_summaries |->
            [i \in 1..Len(with_data) |->
                LET summary == get_student_summary(rows, with_data[i])
                IN  [name |-> with_data[i],
                     total_obtained |-> summary.total_marks_obtained,
                     total_max |-> summary.total_max_marks,
                     percentage |-> summary.overall_percentage,
                     grade |-> summary.overall_grade,
                     subjects_count |-> summary.total_subjects]]]

PageOutput(page, is_valid_marks, is_valid_date, success, target, table) ==
    [page |-> page, is_valid_marks |-> is_valid_marks, is_valid_date |-> is_valid_date,
     success |-> success, target |-> target, table |-> table]

PlainOutput(page) == PageOutput(page, FALSE, FALSE, FALSE, 0, <<>>)

\* 1_Manage_Students.py, "Add Student": a Student row with the next student_id
PageAddStudent ==
    /\ nextStudentId <= MaxStudentId
    /\ Student' = Student \cup {nextStudentId}
    /\ nextStudentId' = nextStudentId + 1
    /\ pgOut' = PageOutput("add_student", FALSE, FALSE, TRUE, nextStudentId, <<>>)
    /\ UNCHANGED <<storage, Subject, nextSubjectId, Marks, pgConfirm>>

\* 2_Manage_Subjects.py, "Add Subject": a Subject row with the next subject_id
PageAddSubject ==
    /\ nextSubjectId <= MaxSubjectId
    /\ Subject' = Subject \cup {nextSubjectId}
    /\ nextSubjectId' = nextSubjectId + 1
    /\ pgOut' = PageOutput("add_subject", FALSE, FALSE, TRUE, nextSubjectId, <<>>)
    /\ UNCHANGED <<storage, Student, nextStudentId, Marks, pgConfirm>>

\* if is_valid_marks and is_valid_date and student_id and subject_id
EntryAcceptedIgnoringDate(is_valid_marks, is_valid_date, student_id, subject_id) ==
    is_valid_marks /\ student_id # 0 /\ subject_id # 0

EntryAccepted(is_valid_marks, is_valid_date, student_id, subject_id) ==
    is_valid_marks /\ is_valid_date /\ student_id # 0 /\ subject_id # 0

\* 3_Enter_Update_Marks.py, "Enter New Marks", form submitted with "Add Marks"
EnterNewMarks(student_id, subject_id, marks_obtained, max_marks, assessment_date) ==
    /\ Student # {} /\ Subject # {}
    /\ student_id \in Student /\ subject_id \in Subject
    /\ Len(Marks) < MaxMarkRows
    /\ LET is_valid_marks == validate_marks(Num(marks_obtained), Num(max_marks)).valid
           is_valid_date == validate_assessment_date(ADate(assessment_date)).valid
           row == MarksRow(student_id, subject_id, marks_obtained, max_marks,
                           assessment_date)
           success == RowAllowed(storage, Student, Subject, row)
       IN  IF EntryAccepted(is_valid_marks, is_valid_date, student_id, subject_id)
           THEN /\ Marks' = IF success THEN Append(Marks, row) ELSE Marks
                /\ pgOut' = PageOutput("enter_marks", is_valid_marks, is_valid_date,
                                       success, student_id, <<>>)
           ELSE /\ Marks' = Marks
                /\ pgOut' = PageOutput("enter_marks", is_valid_marks, is_valid_date,
                                       FALSE, student_id, <<>>)
    /\ UNCHANGED <<storage, Student, nextStudentId, Subject, nextSubjectId, pgConfirm>>

\* if is_valid_marks and is_valid_date
UpdateAccepted(is_valid_marks, is_valid_date) == is_valid_marks /\ is_valid_date

\* 3_Enter_Update_Marks.py, "Update Marks", form submitted for the selected entry
UpdateMarks(mark, new_marks_obtained, new_max_marks, new_assessment_date) ==
    /\ mark \in 1..Len(Marks)
    /\ LET is_valid_marks ==
               validate_marks(Num(new_marks_obtained), Num(new_max_marks)).valid
           is_valid_date == validate_assessment_date(ADate(new_assessment_date)).valid
           row == MarksRow(Marks[mark].student_id, Marks[mark].subject_id,
                           new_marks_obtained, new_max_marks, new_assessment_date)
           success == RowAllowed(storage, Student, Subject, row)
       IN  IF UpdateAccepted(is_valid_marks, is_valid_date)
           THEN /\ Marks' = IF success THEN [Marks EXCEPT ![mark] = row] ELSE Marks
                /\ pgOut' = PageOutput("update_marks", is_valid_marks, is_valid_date,
                                       success, Marks[mark].student_id, <<>>)
           ELSE /\ Marks' = Marks
                /\ pgOut' = PageOutput("update_marks", is_valid_marks, is_valid_date,
                                       FALSE, Marks[mark].student_id, <<>>)
    /\ UNCHANGED <<storage, Student, nextStudentId, Subject, nextSubjectId, pgConfirm>>

RECURSIVE BulkAdd(_, _, _, _, _, _)
\* for student_id, marks_obtained in marks_data: add the valid entries with marks > 0
BulkAdd(rows, todo, marks_data, subject_id, max_marks, assessment_date) ==
    IF todo = <<>> THEN rows
    ELSE LET student_id == Head(todo)
             marks_obtained == marks_data[student_id]
             row == MarksRow(student_id, subject_id, marks_obtained, max_marks,
                             assessment_date)
             stored ==
                 /\ marks_obtained > 0
                 /\ validate_marks(Num(marks_obtained), Num(max_marks)).valid
                 /\ RowAllowed(storage, Student, Subject, row)
         IN  BulkAdd(IF stored THEN Append(rows, row) ELSE rows,
                     Tail(todo), marks_data, subject_id, max_marks, assessment_date)

\* 3_Enter_Update_Marks.py, "Bulk Entry": one script run in which the pressed
\* button, if any, is "Prepare Bulk Entry" or "Submit All Marks".  A form submit
\* button is True only in the run its own press starts, and "Submit All Marks"
\* is drawn only inside "if submitted and subject_id".
BulkEntryRun(pressed, subject_id, max_marks, assessment_date, marks_data) ==
    /\ Student # {} /\ Subject # {}
    /\ subject_id \in Subject
    /\ pressed = "Submit All Marks" => (pgOut.page = "bulk_entry" /\ pgOut.success)
    /\ LET submitted == pressed = "Prepare Bulk Entry"
           form_drawn == submitted /\ subject_id # 0
           bulk_submitted == form_drawn /\ pressed = "Submit All Marks"
       IN  /\ Marks' = IF bulk_submitted
                       THEN BulkAdd(Marks, SetToSeq(Student), marks_data, subject_id,
                                    max_marks, assessment_date)
                       ELSE Marks
           /\ pgOut' = PageOutput("bulk_entry", FALSE, FALSE, form_drawn, 0,
                                  IF bulk_submitted THEN <<"submitted">> ELSE <<>>)
    /\ UNCHANGED <<storage, Student, nextStudentId, Subject, nextSubjectId, pgConfirm>>

\* 3_Enter_Update_Marks.py, "Delete Marks": checkbox ticked and button pressed
DeleteMarks(mark) ==
    /\ mark \in 1..Len(Marks)
    /\ Marks' = [i \in 1..(Len(Marks) - 1) |-> IF i < mark THEN Marks[i] ELSE Marks[i + 1]]
    /\ pgOut' = PageOutput("delete_marks", FALSE, FALSE, TRUE, 0, <<>>)
    /\ UNCHANGED <<storage, Student, nextStudentId, Subject, nextSubjectId, pgConfirm>>

\* 1_Manage_Students.py, "Delete Student" for the selected student: the
\* confirmation dialog, and Student.delete_student once it returns True
DeleteStudent(student_id, pressed) ==
    /\ student_id \in Student
    /\ LET key == <<"delete_student", student_id>>
           confirmed == key \in pgConfirm \/ pressed = "Yes"
           success == ParentDeleteAllowed(storage, Marks, "student_id", student_id)
       IN  IF confirmed
           THEN /\ pgConfirm' = pgConfirm \cup {key}
                /\ Student' = IF success THEN Student \ {student_id} ELSE Student
                /\ Marks' = IF success
                            THEN MarksAfterParentDelete(storage, Marks, "student_id",
                                                        student_id)
                            ELSE Marks
                /\ pgOut' = PageOutput("delete_student", FALSE, FALSE, success,
                                       student_id, <<>>)
           ELSE /\ UNCHANGED <<pgConfirm, Student, Marks>>
                /\ pgOut' = PageOutput("delete_student", FALSE, FALSE, FALSE,
                                       student_id, <<>>)
    /\ UNCHANGED <<storage, nextStudentId, Subject, nextSubjectId>>

\* 2_Manage_Subjects.py, "Delete Subject" for the selected subject
DeleteSubject(subject_id, pressed) ==
    /\ subject_id \in Subject
    /\ LET key == <<"delete_subject", subject_id>>
           confirmed == key \in pgConfirm \/ pressed = "Yes"
           success == ParentDeleteAllowed(storage, Marks, "subject_id", subject_id)
       IN  IF confirmed
           THEN /\ pgConfirm' = pgConfirm \cup {key}
                /\ Subject' = IF success THEN Subject \ {subject_id} ELSE Subject
                /\ Marks' = IF success
                            THEN MarksAfterParentDelete(storage, Marks, "subject_id",
                                                        subject_id)
                            ELSE Marks
                /\ pgOut' = PageOutput("delete_subject", FALSE, FALSE, success,
                                       subject_id, <<>>)
           ELSE /\ UNCHANGED <<pgConfirm, Subject, Marks>>
                /\ pgOut' = PageOutput("delete_subject", FALSE, FALSE, FALSE,
                                       subject_id, <<>>)
    /\ UNCHANGED <<storage, Student, nextStudentId, nextSubjectId>>

\* a report card run that also removes the reported records
ReportCardConsuming(student_id) ==
    /\ student_id \in Student
    /\ Marks' = SelectSeq(Marks, LAMBDA r : r.student_id # student_id)
    /\ pgOut' = PageOutput("report_card", FALSE, FALSE, RowsOf(Marks, student_id) # <<>>,
                           student_id, <<>>)
    /\ UNCHANGED <<storage, Student, nextStudentId, Subject, nextSubjectId, pgConfirm>>

\* 4_Student_Report_Card.py for the selected student: the subject-wise table
ReportCard(student_id) ==
    /\ student_id \in Student
    /\ LET student_summary == get_student_summary(Marks, student_id)
           details == student_summary.subject_details
           subject_data ==
               [i \in 1..Len(details) |->
                   [percentage |-> details[i].percentage,
                    grade |-> details[i].grade,
                    status |-> Status(details[i].percentage)]]
       IN  pgOut' = IF student_summary.total_subjects = 0
                    THEN PageOutput("report_card", FALSE, FALSE, FALSE, student_id, <<>>)
                    ELSE PageOutput("report_card", FALSE, FALSE, TRUE, student_id,
                                    subject_data)
    /\ UNCHANGED <<storage, Student, nextStudentId, Subject, nextSubjectId, Marks,
                   pgConfirm>>

\* 5_Class_Analytics.py for a selected class: the "All Students Performance" table
ClassAnalytics ==
    /\ Student # {}
    /\ LET class_analytics == get_class_analytics(Student, Marks)
           summaries == class_analytics.student_summaries
           all_students_data ==
               [i \in 1..Len(summaries) |->
                   [percentage |-> summaries[i].percentage,
                    grade |-> summaries[i].grade,
                    status |-> Status(summaries[i].percentage)]]
       IN  pgOut' = IF class_analytics.total_students = 0
                    THEN PlainOutput("class_analytics")
                    ELSE PageOutput("class_analytics", FALSE, FALSE, TRUE, 0,
                                    all_students_data)
    /\ UNCHANGED <<storage, Student, nextStudentId, Subject, nextSubjectId, Marks,
                   pgConfirm>>

Next ==
    \/ PageAddStudent /\ UNCHANGED <<gradeVars, validateVars, appVars, subjVars, reportVars, helperVars>>
    \/ PageAddSubject /\ UNCHANGED <<gradeVars, validateVars, appVars, subjVars, reportVars, helperVars>>
    \/ \E st \in 1..MaxStudentId, u \in 1..MaxSubjectId, m \in PageMarksInputs,
          M \in PageMaxMarksInputs, d \in PageDateInputs :
          EnterNewMarks(st, u, m, M, d) /\ UNCHANGED <<gradeVars, validateVars, appVars, subjVars, reportVars, helperVars>>
    \/ \E k \in 1..MaxMarkRows, m \in PageMarksInputs,
          M \in PageMaxMarksInputs, d \in PageDateInputs :
          UpdateMarks(k, m, M, d) /\ UNCHANGED <<gradeVars, validateVars, appVars, subjVars, reportVars, helperVars>>
    \/ \E pressed \in {"none", "Prepare Bulk Entry", "Submit All Marks"},
          u \in 1..MaxSubjectId, M \in PageMaxMarksInputs, d \in PageDateInputs,
          marks_data \in [Student -> {0, 2}] :
          BulkEntryRun(pressed, u, M, d, marks_data)
              /\ UNCHANGED <<gradeVars, validateVars, appVars, subjVars, reportVars, helperVars>>
    \/ \E k \in 1..MaxMarkRows :
          DeleteMarks(k) /\ UNCHANGED <<gradeVars, validateVars, appVars, subjVars, reportVars, helperVars>>
    \/ \E st \in 1..MaxStudentId, pressed \in {"none", "Yes", "No"} :
          DeleteStudent(st, pressed) /\ UNCHANGED <<gradeVars, validateVars, appVars, subjVars, reportVars, helperVars>>
    \/ \E u \in 1..MaxSubjectId, pressed \in {"none", "Yes", "No"} :
          DeleteSubject(u, pressed) /\ UNCHANGED <<gradeVars, validateVars, appVars, subjVars, reportVars, helperVars>>
    \/ \E st \in 1..MaxStudentId :
          ReportCard(st) /\ UNCHANGED <<gradeVars, validateVars, appVars, subjVars, reportVars, helperVars>>
    \/ ClassAnalytics /\ UNCHANGED <<gradeVars, validateVars, appVars, subjVars, reportVars, helperVars>>

----------------------------------------------------------------------------
(* Subject names.  The subject table of either application with its name    *)
(* column: table subjects of app.py (name and code UNIQUE) and table        *)
(* Subject of pages/ (subject_name UNIQUE).                                 *)

MaxSubjectRows == 3   \* subjects are added while the table has fewer rows

\* the sample subjects of app.py init_database, in insertion order
SampleSubjects ==
    <<[name |-> "Mathematics", code |-> "MATH101"],
      [name |-> "Physics", code |-> "PHY101"],
      [name |-> "Chemistry", code |-> "CHEM101"]>>

\* st.text_input("Subject Name*") and st.text_input("Subject Code*") of app.py
AppSubjectNameInputs == {"", "Mathematics", "Physics", "Economics"}
AppSubjectCodeInputs == {"", "math101", "MATH101", "ECO101"}

\* common_subjects[:5] of 2_Manage_Subjects.py, the "Core Subjects" column
common_subjects == {"Mathematics", "Physics", "Chemistry", "Biology", "English"}

\* code.upper()
Upper(code) ==
    CASE code = "math101" -> "MATH101"
      [] OTHER -> code

SubjectNames(rows) == {rows[i].name : i \in 1..Len(rows)}

SubjectCodes(rows) == {rows[i].code : i \in 1..Len(rows)}

\* only the code is declared UNIQUE
UniqueViolatedCodeOnly(rows, name, code, has_code) ==
    has_code /\ code \in SubjectCodes(rows)

\* the INSERT violates a UNIQUE constraint of the subject table
UniqueViolated(rows, name, code, has_code) ==
    \/ name \in SubjectNames(rows)
    \/ has_code /\ code \in SubjectCodes(rows)

SubjectOutput(name, attempted, success, error) ==
    [name |-> name, attempted |-> attempted, success |-> success, error |-> error]

\* app.py manage_subjects, "Add Subject" submitted
AppAddSubject(name, code) ==
    /\ sbApp = "app.py"
    /\ Len(sbRows) < MaxSubjectRows
    /\ IF name = "" \/ code = ""
       THEN /\ UNCHANGED <<sbRows, sbNextId>>
            /\ sbOut' = SubjectOutput(name, FALSE, FALSE, FALSE)
       ELSE IF UniqueViolated(sbRows, name, Upper(code), TRUE)
       THEN \* sqlite3.IntegrityError: "Subject name or code already exists!"
            /\ UNCHANGED <<sbRows, sbNextId>>
            /\ sbOut' = SubjectOutput(name, TRUE, FALSE, TRUE)
       ELSE /\ sbRows' = Append(sbRows, [id |-> sbNextId, name |-> name,
                                         code |-> Upper(code)])
            /\ sbNextId' = sbNextId + 1
            /\ sbOut' = SubjectOutput(name, TRUE, TRUE, FALSE)
    /\ UNCHANGED sbApp

\* Subject.add_subject: INSERT INTO Subject (subject_name), False when it fails
add_subject(rows, subject_name) == ~UniqueViolated(rows, subject_name, "", FALSE)

\* 2_Manage_Subjects.py, "Quick Add Common Subjects": button "Add <subject>"
QuickAddSubject(subject) ==
    /\ sbApp = "pages"
    /\ Len(sbRows) < MaxSubjectRows
    /\ IF add_subject(sbRows, subject)
       THEN /\ sbRows' = Append(sbRows, [id |-> sbNextId, name |-> subject, code |-> ""])
            /\ sbNextId' = sbNextId + 1
            /\ sbOut' = SubjectOutput(subject, TRUE, TRUE, FALSE)
       ELSE \* "Failed to add <subject> (may already exist)"
            /\ UNCHANGED <<sbRows, sbNextId>>
            /\ sbOut' = SubjectOutput(subject, TRUE, FALSE, TRUE)
    /\ UNCHANGED sbApp

SubjectsNext ==
    \/ \E name \in AppSubjectNameInputs, code \in AppSubjectCodeInputs :
          AppAddSubject(name, code)
              /\ UNCHANGED <<gradeVars, validateVars, appVars, pageVars, reportVars, helperVars>>
    \/ \E subject \in common_subjects :
          QuickAddSubject(subject)
              /\ UNCHANGED <<gradeVars, validateVars, appVars, pageVars, reportVars, helperVars>>

----------------------------------------------------------------------------
(* Reports over a stored table.  The rankings and report sections are pure  *)
(* functions of the stored rows: a table is drawn, and each run of a report *)
(* displays its result from it.                                             *)

MaxRankStudents == 6   \* students of the table the rankings are computed from
MaxTied == 3           \* at most this many of them have the same marks

TopStudentsLimit == 5     \* show_reports: LIMIT 5
ExportStudentsLimit == 10 \* show_analytics, Export Summary: LIMIT 10
TopPerformersLimit == 5   \* get_class_analytics: top_performers

\* a student of the ranked table has no marks or one assessment, 1/2 or 2/2
RankMarks == {<<1, 2>>, <<2, 2>>}
NoAssessment == <<0, 0>>

\* the marks table for these assessments, as rows of the application's table
RECURSIVE RowsFor(_, _, _, _)
RowsFor(app, student_id, last, pick) ==
    IF student_id > last THEN <<>>
    ELSE (IF pick[student_id] = NoAssessment THEN <<>>
          ELSE IF app = "app.py"
          THEN <<MarkRow(student_id, 1, pick[student_id][1], pick[student_id][2])>>
          ELSE <<MarksRow(student_id, 1, pick[student_id][1], pick[student_id][2],
                          Today)>>)
         \o RowsFor(app, student_id + 1, last, pick)

ReportOutput(report, list) == [report |-> report, list |-> list]

\* AVG(m.marks/m.max_marks*100) of the student's rows, GROUP BY s.id
avg_score(rows, student_id) == SqlAvgPct(RowsOfStudent(rows, student_id)).val

\* FROM students s JOIN marks m ON s.id = m.student_id: the students with rows
JoinedStudents(students, rows) ==
    {st \in students : RowsOfStudent(rows, st) # <<>>}

\* ORDER BY avg_score DESC: every order of the groups with non-increasing
\* avg_score; SQL leaves the order of groups with equal avg_score open
RECURSIVE OrderByAvgScoreDesc(_, _)
OrderByAvgScoreDesc(rows, groups) ==
    IF groups = {} THEN {<<>>}
    ELSE LET first == {g \in groups :
                          \A h \in groups : RatLE(avg_score(rows, h), avg_score(rows, g))}
         IN  UNION {{<<g>> \o rest : rest \in OrderByAvgScoreDesc(rows, groups \ {g})}
                    : g \in first}

\* LIMIT n - 1
LimitShort(result, n) ==
    SubSeq(result, 1, IF Len(result) < n - 1 THEN Len(result) ELSE n - 1)

\* LIMIT n
Limit(result, n) == SubSeq(result, 1, IF Len(result) < n THEN Len(result) ELSE n)

\* the result sets the top-students query of app.py can return
TopStudentsQuery(students, rows, n) ==
    {Limit(result, n) : result \in OrderByAvgScoreDesc(rows, JoinedStudents(students, rows))}

\* app.py show_reports, "Class Reports": "Top 5 Students", numbered idx + 1
ShowTopStudents ==
    /\ rpApp = "app.py"
    /\ \E top_students \in TopStudentsQuery(rpStudents, rpRows, TopStudentsLimit) :
          rpOut' = ReportOutput("top_students",
                      [idx \in 1..Len(top_students) |->
                          [rank |-> idx, name |-> top_students[idx],
                           percentage |->
                               RoundTenths(avg_score(rpRows, top_students[idx]))]])
    /\ UNCHANGED <<rpApp, rpStudents, rpRows>>

\* app.py show_analytics, "Export Summary Report": summary_data['top_students']
ExportTopStudents ==
    /\ rpApp = "app.py"
    /\ rpRows # <<>>
    /\ \E top_students \in TopStudentsQuery(rpStudents, rpRows, ExportStudentsLimit) :
          rpOut' = ReportOutput("export_top_students",
                      [idx \in 1..Len(top_students) |->
                          [rank |-> idx, name |-> top_students[idx],
                           percentage |->
                               RoundTenths(avg_score(rpRows, top_students[idx]))]])
    /\ UNCHANGED <<rpApp, rpStudents, rpRows>>

\* insertion of a summary into a list sorted by percentage descending, after
\* the summaries with the same percentage
RECURSIVE InsertByPercentage(_, _)
InsertByPercentage(sorted, summary) ==
    IF sorted = <<>> THEN <<summary>>
    ELSE IF Head(sorted).percentage >= summary.percentage
    THEN <<Head(sorted)>> \o InsertByPercentage(Tail(sorted), summary)
    ELSE <<summary>> \o sorted

RECURSIVE SortByPercentageDesc(_)
SortByPercentageDesc(summaries) ==
    IF summaries = <<>> THEN <<>>
    ELSE InsertByPercentage(SortByPercentageDesc(SubSeq(summaries, 1, Len(summaries) - 1)),
                            summaries[Len(summaries)])

\* get_class_analytics: top_performers, the summaries by percentage descending
top_performers(students, rows) ==
    Limit(SortByPercentageDesc(get_class_analytics(students, rows).student_summaries),
          TopPerformersLimit)

\* 5_Class_Analytics.py, "Top Performers": rows numbered by enumerate(..., 1)
ClassTopPerformers ==
    /\ rpApp = "pages"
    /\ LET performers == top_performers(rpStudents, rpRows)
       IN  rpOut' = ReportOutput("top_performers",
                       [i \in 1..Len(performers) |->
                           [rank |-> i, name |-> performers[i].name,
                            percentage |-> performers[i].percentage]])
    /\ UNCHANGED <<rpApp, rpStudents, rpRows>>

RankNext ==
    \/ ShowTopStudents
          /\ UNCHANGED <<gradeVars, validateVars, appVars, pageVars, subjVars, helperVars>>
    \/ ExportTopStudents
          /\ UNCHANGED <<gradeVars, validateVars, appVars, pageVars, subjVars, helperVars>>
    \/ ClassTopPerformers
          /\ UNCHANGED <<gradeVars, validateVars, appVars, pageVars, subjVars, helperVars>>

\* a subject entry of the report card: marks out of 100, one per grade band
\* and on both sides of the 60% line
CardMarks == {30, 40, 50, 59, 60, 70, 80, 90}
MaxCardEntries == 4    \* mark records of the student of the report card

\* insertion of an entry into a list sorted by percentage ascending, after the
\* entries with the same percentage
RECURSIVE InsertByPercentageAsc(_, _)
InsertByPercentageAsc(sorted, entry) ==
    IF sorted = <<>> THEN <<entry>>
    ELSE IF Head(sorted).percentage <= entry.percentage
    THEN <<Head(sorted)>> \o InsertByPercentageAsc(Tail(sorted), entry)
    ELSE <<entry>> \o sorted

\* sorted(weak_subjects, key=lambda x: x['percentage'])
RECURSIVE SortByPercentageAsc(_)
SortByPercentageAsc(entries) ==
    IF entries = <<>> THEN <<>>
    ELSE InsertByPercentageAsc(SortByPercentageAsc(SubSeq(entries, 1, Len(entries) - 1)),
                               entries[Len(entries)])

\* subject['percentage'] <= 60
needs_improvement_at_60(subject) == subject.percentage <= 600

\* subject['percentage'] < 60, percentage in tenths
needs_improvement(subject) == subject.percentage < 600

\* grade_counts: the number of entries with one of these grades
GradeCount(entries, grades) ==
    Cardinality({i \in 1..Len(entries) : entries[i].grade \in grades})

\* the A count without grade_counts.get('A+', 0)
GradeDistributionWithoutAPlus(entries) ==
    [a_count |-> GradeCount(entries, {"A"}),
     b_count |-> GradeCount(entries, {"B+", "B"}),
     c_count |-> GradeCount(entries, {"C+", "C"}),
     f_count |-> GradeCount(entries, {"F"})]

\* the four displayed counts: A+/A, B+/B, C+/C, F
GradeDistribution(entries) ==
    [a_count |-> GradeCount(entries, {"A+", "A"}),
     b_count |-> GradeCount(entries, {"B+", "B"}),
     c_count |-> GradeCount(entries, {"C+", "C"}),
     f_count |-> GradeCount(entries, {"F"})]

\* 4_Student_Report_Card.py, "Performance Analysis" and "Grade Distribution"
ReportCardAnalysis ==
    /\ rpApp = "pages"
    /\ \E student_id \in rpStudents :
          LET student_summary == get_student_summary(rpRows, student_id)
              best_subjects ==
                  Limit(SortByPercentageDesc(student_summary.subject_details), 3)
              weak_subjects ==
                  SelectSeq(student_summary.subject_details, needs_improvement)
              weak_subjects_sorted == SortByPercentageAsc(weak_subjects)
          IN  rpOut' = IF student_summary.total_subjects = 0
                       THEN ReportOutput("report_card_empty", <<>>)
                       ELSE ReportOutput("report_card",
                               [strengths |-> best_subjects,
                                improvement |-> Limit(weak_subjects_sorted, 3),
                                grades |->
                                    GradeDistribution(student_summary.subject_details)])
    /\ UNCHANGED <<rpApp, rpStudents, rpRows>>

CardNext ==
    ReportCardAnalysis
        /\ UNCHANGED <<gradeVars, validateVars, appVars, pageVars, subjVars, helperVars>>

MaxClassStudents == 3   \* students of the analysed class

\* get_class_analytics: pass_count counts every student summary
pass_count_all(student_summaries) == Len(student_summaries)

\* get_class_analytics: pass_count, the summaries with percentage >= 40
pass_count(student_summaries) ==
    Cardinality({i \in 1..Len(student_summaries) :
                    student_summaries[i].percentage >= 400})

\* get_class_analytics: fail_count, the remainder
fail_count(student_summaries) ==
    Len(student_summaries) - pass_count(student_summaries)

\* 5_Class_Analytics.py: the metrics, the "All Students Performance" table
\* and the "Grade Distribution" of the selected class
ClassAnalyticsReport ==
    /\ rpApp = "pages"
    /\ LET class_analytics == get_class_analytics(rpStudents, rpRows)
           summaries == class_analytics.student_summaries
       IN  rpOut' = IF class_analytics.total_students = 0
                    THEN ReportOutput("class_analytics_empty", <<>>)
                    ELSE ReportOutput("class_analytics",
                            [total_students |-> class_analytics.total_students,
                             pass_count |-> pass_count(summaries),
                             fail_count |-> fail_count(summaries),
                             all_students_data |->
                                 [i \in 1..Len(summaries) |->
                                     [name |-> summaries[i].name,
                                      percentage |-> summaries[i].percentage,
                                      grade |-> summaries[i].grade,
                                      status |-> Status(summaries[i].percentage)]],
                             grades |-> GradeDistribution(summaries)])
    /\ UNCHANGED <<rpApp, rpStudents, rpRows>>

ClassNext ==
    ClassAnalyticsReport
        /\ UNCHANGED <<gradeVars, validateVars, appVars, pageVars, subjVars, helperVars>>

----------------------------------------------------------------------------
(* Pagination of the list pages (utils/ui_components.py) *)

MaxItems == 10           \* the paginated data has at most this many items

\* the choices of the "per page" select boxes (10, 25, 50, 100 in the code)
PageSizes == {1, 2, 3}

\* the data of a run: a list of n items
DataOf(n) == [i \in 1..n |-> i]

min(a, b) == IF a <= b THEN a ELSE b

max(a, b) == IF a >= b THEN a ELSE b

PaginateOutput(data, page_size, clicked, result) ==
    [data |-> data, page_size |-> page_size, clicked |-> clicked,
     paginated_data |-> result.paginated_data,
     current_page |-> result.current_page,
     total_pages |-> result.total_pages,
     total_items |-> result.total_items]

paginate_data_unclamped(data, page_size, session) ==
    IF data = <<>>
    THEN [paginated_data |-> <<>>, current_page |-> 0, total_pages |-> 0,
          total_items |-> 0, session |-> session]
    ELSE LET total_items == Len(data)
             total_pages == (total_items + page_size - 1) \div page_size
             current_page == IF session = 0 THEN 1 ELSE session
             start_idx == (current_page - 1) * page_size
             end_idx == min(start_idx + page_size, total_items)
         IN  [paginated_data |-> SubSeq(data, start_idx + 1, end_idx),
              current_page |-> current_page,
              total_pages |-> total_pages,
              total_items |-> total_items,
              session |-> current_page]

\* paginate_data; session is the stored page (0: the key is absent), and the
\* field session of the result is the stored page after the call
paginate_data(data, page_size, session) ==
    IF data = <<>>
    THEN [paginated_data |-> <<>>, current_page |-> 0, total_pages |-> 0,
          total_items |-> 0, session |-> session]
    ELSE LET total_items == Len(data)
             total_pages == (total_items + page_size - 1) \div page_size
             stored == IF session = 0 THEN 1 ELSE session
             current_page == max(1, min(stored, total_pages))
             start_idx == (current_page - 1) * page_size
             end_idx == min(start_idx + page_size, total_items)
         IN  [paginated_data |-> SubSeq(data, start_idx + 1, end_idx),
              current_page |-> current_page,
              total_pages |-> total_pages,
              total_items |-> total_items,
              session |-> current_page]

\* a script run of a list page: the data is loaded, the page size is read from
\* its select box and paginate_data is called; no pagination button is pressed
PaginateRun(n, page_size) ==
    LET result == paginate_data(DataOf(n), page_size, pnSession)
    IN  /\ pnSession' = result.session
        /\ pnOut' = PaginateOutput(DataOf(n), page_size, "none", result)

\* display_pagination_controls: what the pressed button stores
PageStored(button, current_page, total_pages) ==
    CASE button = "first" -> 1
      [] button = "prev" -> max(1, current_page - 1)
      [] button = "next" -> min(total_pages, current_page + 1)
      [] button = "last" -> total_pages

\* display_pagination_controls: the button is drawn and is not disabled
ButtonEnabled(button, current_page, total_pages) ==
    /\ total_pages > 1
    /\ button \in {"first", "prev"} => current_page # 1
    /\ button \in {"next", "last"} => current_page # total_pages

\* a pagination button is pressed: the run it starts calls paginate_data,
\* stores the new page and calls st.rerun(), and the rerun calls paginate_data
PaginateClick(button) ==
    LET shown == paginate_data(pnOut.data, pnOut.page_size, pnSession)
        stored == PageStored(button, shown.current_page, shown.total_pages)
        result == paginate_data(pnOut.data, pnOut.page_size, stored)
    IN  /\ ButtonEnabled(button, pnOut.current_page, pnOut.total_pages)
        /\ pnSession' = result.session
        /\ pnOut' = PaginateOutput(pnOut.data, pnOut.page_size, button, result)

PaginateNext ==
    \/ \E n \in 0..MaxItems, page_size \in PageSizes :
          PaginateRun(n, page_size)
              /\ UNCHANGED <<gradeVars, validateVars, appVars, pageVars, subjVars, reportVars,
                             seedVars, dbVars, badgeVars>>
    \/ \E button \in {"first", "prev", "next", "last"} :
          PaginateClick(button)
              /\ UNCHANGED <<gradeVars, validateVars, appVars, pageVars, subjVars, reportVars,
                             seedVars, dbVars, badgeVars>>

----------------------------------------------------------------------------
(* Sample-data seeding (app.py init_database, db/db_init.py) *)

SeedStudents == 2        \* sample students of a seeding (5 in app.py, 10 in db_init.py)
SeedMarkSubjects == 1    \* db_init.py gives marks for the first subjects only (5 of 8)
MaxSeedStudentId == 5    \* students are inserted while their ids are at most this
MaxSeedSubjectId == 5    \* subjects are inserted while their ids are at most this

\* the sample subjects (6 in app.py, 8 in db_init.py)
SeedSubjectNames == <<"Mathematics", "Physics">>

\* random.uniform(60, 95) in app.py, random.randint(45, 95) in db_init.py
SeedMarksValues == {60, 95}

SeedOutput(page, existing, raised) ==
    [page |-> page, existing |-> existing, raised |-> raised]

\* the loop "for subject in sample_subjects" of insert_sample_data: an insert
\* of a stored subject_name fails on UNIQUE and still uses up an id
RECURSIVE InsertSubjects(_, _, _)
InsertSubjects(rows, next, names) ==
    IF names = <<>>
    THEN [rows |-> rows, next |-> next, subjects_inserted |-> 0]
    ELSE LET duplicate == \E r \in rows : r.name = Head(names)
             rest == InsertSubjects(
                         IF duplicate THEN rows
                         ELSE rows \cup {[id |-> next, name |-> Head(names)]},
                         next + 1, Tail(names))
         IN  [rest EXCEPT !.subjects_inserted = @ + (IF duplicate THEN 0 ELSE 1)]

\* the nested loops over range(1, n + 1) and range(1, m + 1), with the marks
\* that random gives to each pair
SeedMarkRows(n, m, pick) ==
    [k \in 1..(n * m) |->
        [student_id |-> ((k - 1) \div m) + 1,
         subject_id |-> ((k - 1) % m) + 1,
         marks |-> pick[k]]]

SubjectIds(rows) == {r.id : r \in rows}

insert_sample_data_unconditional ==
    /\ sdNextStudent + SeedStudents - 1 <= MaxSeedStudentId
    /\ sdNextSubject + Len(SeedSubjectNames) - 1 <= MaxSeedSubjectId
    /\ LET students_inserted == SeedStudents
           subjects == InsertSubjects(sdSubject, sdNextSubject, SeedSubjectNames)
           m == min(SeedMarkSubjects, subjects.subjects_inserted)
       IN  /\ sdStudent' = sdStudent \cup
                   (sdNextStudent..(sdNextStudent + students_inserted - 1))
           /\ sdNextStudent' = sdNextStudent + students_inserted
           /\ sdSubject' = subjects.rows
           /\ sdNextSubject' = subjects.next
           /\ \E pick \in [1..(students_inserted * m) -> SeedMarksValues] :
                 sdMarks' = sdMarks \o
                     SelectSeq(SeedMarkRows(students_inserted, m, pick),
                               LAMBDA r : /\ r.student_id \in sdStudent'
                                          /\ r.subject_id \in SubjectIds(sdSubject'))
           /\ sdOut' = SeedOutput("seed", FALSE, FALSE)
    /\ UNCHANGED sdStore

\* insert_sample_data of db_init.py on MySQL: every statement is its own
\* transaction, and a marks row that violates a foreign key is rejected
insert_sample_data ==
    IF sdStudent # {}
    THEN /\ sdOut' = SeedOutput("seed", TRUE, FALSE)
         /\ UNCHANGED <<sdStore, sdStudent, sdNextStudent, sdSubject, sdNextSubject,
                        sdMarks>>
    ELSE /\ sdNextStudent + SeedStudents - 1 <= MaxSeedStudentId
         /\ sdNextSubject + Len(SeedSubjectNames) - 1 <= MaxSeedSubjectId
         /\ LET students_inserted == SeedStudents
                subjects == InsertSubjects(sdSubject, sdNextSubject, SeedSubjectNames)
                m == min(SeedMarkSubjects, subjects.subjects_inserted)
            IN  /\ sdStudent' = sdNextStudent..(sdNextStudent + students_inserted - 1)
                /\ sdNextStudent' = sdNextStudent + students_inserted
                /\ sdSubject' = subjects.rows
                /\ sdNextSubject' = subjects.next
                /\ \E pick \in [1..(students_inserted * m) -> SeedMarksValues] :
                      sdMarks' = sdMarks \o
                          SelectSeq(SeedMarkRows(students_inserted, m, pick),
                                    LAMBDA r : /\ r.student_id \in sdStudent'
                                               /\ r.subject_id \in SubjectIds(sdSubject'))
                /\ sdOut' = SeedOutput("seed", FALSE, FALSE)
         /\ UNCHANGED sdStore

\* initialize_database of db_init.py: create_tables, then insert_sample_data.
\* On the SQLite fallback the AUTO_INCREMENT of the first CREATE TABLE is a
\* syntax error that execute_query does not catch
initialize_database ==
    IF sdStore = "sqlite_fallback"
    THEN /\ sdOut' = SeedOutput("seed", FALSE, TRUE)
         /\ UNCHANGED <<sdStore, sdStudent, sdNextStudent, sdSubject, sdNextSubject,
                        sdMarks>>
    ELSE insert_sample_data

\* init_database of app.py: one transaction, committed at the end; the marks
\* table has foreign keys that SQLite does not enforce
init_database ==
    IF sdStudent # {}
    THEN /\ sdOut' = SeedOutput("seed", TRUE, FALSE)
         /\ UNCHANGED <<sdStore, sdStudent, sdNextStudent, sdSubject, sdNextSubject,
                        sdMarks>>
    ELSE IF \E r \in sdSubject, i \in 1..Len(SeedSubjectNames) :
                r.name = SeedSubjectNames[i]
    THEN /\ sdOut' = SeedOutput("seed", FALSE, TRUE)
         /\ UNCHANGED <<sdStore, sdStudent, sdNextStudent, sdSubject, sdNextSubject,
                        sdMarks>>
    ELSE /\ sdNextStudent + SeedStudents - 1 <= MaxSeedStudentId
         /\ sdNextSubject + Len(SeedSubjectNames) - 1 <= MaxSeedSubjectId
         /\ sdStudent' = sdNextStudent..(sdNextStudent + SeedStudents - 1)
         /\ sdNextStudent' = sdNextStudent + SeedStudents
         /\ sdSubject' = sdSubject \cup
                {[id |-> sdNextSubject + i - 1, name |-> SeedSubjectNames[i]] :
                    i \in 1..Len(SeedSubjectNames)}
         /\ sdNextSubject' = sdNextSubject + Len(SeedSubjectNames)
         /\ \E pick \in [1..(SeedStudents * Len(SeedSubjectNames)) -> SeedMarksValues] :
               sdMarks' = sdMarks \o
                   SeedMarkRows(SeedStudents, Len(SeedSubjectNames), pick)
         /\ sdOut' = SeedOutput("seed", FALSE, FALSE)
         /\ UNCHANGED sdStore

\* a student is added; app.py has called init_database before
SeedAddStudent ==
    /\ sdStore = "app" => sdOut.page # "start"
    /\ sdNextStudent <= MaxSeedStudentId
    /\ sdStudent' = sdStudent \cup {sdNextStudent}
    /\ sdNextStudent' = sdNextStudent + 1
    /\ sdOut' = SeedOutput("add_student", FALSE, FALSE)
    /\ UNCHANGED <<sdStore, sdSubject, sdNextSubject, sdMarks>>

\* a student is deleted: app.py deletes the student's marks itself, MySQL
\* cascades, the SQLite fallback leaves the marks
SeedDeleteStudent(student_id) ==
    /\ student_id \in sdStudent
    /\ sdStudent' = sdStudent \ {student_id}
    /\ sdMarks' = IF sdStore = "sqlite_fallback" THEN sdMarks
                  ELSE SelectSeq(sdMarks, LAMBDA r : r.student_id # student_id)
    /\ sdOut' = SeedOutput("delete_student", FALSE, FALSE)
    /\ UNCHANGED <<sdStore, sdNextStudent, sdSubject, sdNextSubject>>

\* a subject is deleted on 2_Manage_Subjects.py; app.py has no such operation
SeedDeleteSubject(subject_id) ==
    /\ sdStore # "app"
    /\ subject_id \in SubjectIds(sdSubject)
    /\ sdSubject' = {r \in sdSubject : r.id # subject_id}
    /\ sdMarks' = IF sdStore = "sqlite_fallback" THEN sdMarks
                  ELSE SelectSeq(sdMarks, LAMBDA r : r.subject_id # subject_id)
    /\ sdOut' = SeedOutput("delete_subject", FALSE, FALSE)
    /\ UNCHANGED <<sdStore, sdStudent, sdNextStudent, sdNextSubject>>

SeedNext ==
    \/ (IF sdStore = "app" THEN init_database ELSE initialize_database)
          /\ UNCHANGED <<gradeVars, validateVars, appVars, pageVars, subjVars, reportVars,
                         paginateVars, dbVars, badgeVars>>
    \/ SeedAddStudent
          /\ UNCHANGED <<gradeVars, validateVars, appVars, pageVars, subjVars, reportVars,
                         paginateVars, dbVars, badgeVars>>
    \/ \E student_id \in 1..MaxSeedStudentId :
          SeedDeleteStudent(student_id)
              /\ UNCHANGED <<gradeVars, validateVars, appVars, pageVars, subjVars,
                             reportVars, paginateVars, dbVars, badgeVars>>
    \/ \E subject_id \in 1..MaxSeedSubjectId :
          SeedDeleteSubject(subject_id)
              /\ UNCHANGED <<gradeVars, validateVars, appVars, pageVars, subjVars,
                             reportVars, paginateVars, dbVars, badgeVars>>

----------------------------------------------------------------------------
(* The database helpers (db/connection.py, db/mysql_connection.py) *)

DbHelpers == {"execute_query", "fetch_all", "fetch_one"}

\* the statements of init_database in db/connection.py, in execution order
CreateStatements ==
    <<"Student", "Subject", "Marks", "idx_student_class_section",
      "idx_marks_student_subject", "idx_marks_assessment_date">>

\* DatabaseManager.connect: what get_db_connection can come to hold;
\* "none" when connect returned False
ConnectOutcomes(manager) ==
    IF manager = "sqlite_manager"
    THEN {"sqlite", "none"}
    ELSE {"mysql", "sqlite_fallback", "none"}

\* the value a helper returns when it reports a failure
FailureValue(helper) ==
    CASE helper = "execute_query" -> "False"
      [] helper = "fetch_all" -> "[]"
      [] helper = "fetch_one" -> "None"

\* the value a helper returns when its statement was executed
SuccessValue(helper) ==
    CASE helper = "execute_query" -> "True"
      [] helper = "fetch_all" -> "rows"
      [] helper = "fetch_one" -> "row"

\* the exception of a failed statement reaches the caller: db/connection.py
\* catches Exception, db/mysql_connection.py catches mysql.connector.Error,
\* which the sqlite3 errors of the fallback connection are not
Propagates(conn) == conn = "sqlite_fallback"

DbOutput(helper, conn, params, failure, failed, returned, raised) ==
    [helper |-> helper, conn |-> conn, params |-> params, failure |-> failure,
     failed |-> failed, returned |-> returned, raised |-> raised]

\* DatabaseManager.execute_query, fetch_all, fetch_one on an open connection;
\* params says whether the statement is executed with parameters
ManagerCall(helper, conn, params, failure) ==
    IF ~failure
    THEN DbOutput(helper, conn, params, FALSE, {}, SuccessValue(helper), FALSE)
    ELSE IF Propagates(conn)
    THEN DbOutput(helper, conn, params, TRUE, {}, "-", TRUE)
    ELSE DbOutput(helper, conn, params, TRUE, {}, FailureValue(helper), FALSE)

\* a module-level helper is called: get_db_connection connects on its first
\* call and is cached afterwards; failure says whether the statement fails
HelperCall(helper, outcome, params, failure) ==
    LET db == IF dbConn = "unconnected" THEN outcome ELSE dbConn
    IN  /\ outcome \in ConnectOutcomes(dbManager)
        /\ dbConn' = db
        /\ dbOut' = IF db = "none"
                    THEN DbOutput(helper, db, params, FALSE, {}, FailureValue(helper),
                                  FALSE)
                    ELSE ManagerCall(helper, db, params, failure)
        /\ UNCHANGED dbManager

\* init_database of db/connection.py; failed is the set of its statements
\* whose execute_query fails. Every statement is executed, the value of
\* execute_query is not looked at, and True is returned
connection_init_database(outcome, failed) ==
    LET db == IF dbConn = "unconnected" THEN outcome ELSE dbConn
    IN  /\ dbManager = "sqlite_manager"
        /\ outcome \in ConnectOutcomes(dbManager)
        /\ dbConn' = db
        /\ dbOut' = IF db = "none"
                    THEN DbOutput("init_database", db, FALSE, FALSE, {}, "False",
                                  FALSE)
                    ELSE DbOutput("init_database", db, FALSE, failed # {}, failed,
                                  "True", FALSE)
        /\ UNCHANGED dbManager

DbNext ==
    \/ \E helper \in DbHelpers, outcome \in ConnectOutcomes(dbManager),
          params \in BOOLEAN, failure \in BOOLEAN :
          HelperCall(helper, outcome, params, failure)
              /\ UNCHANGED <<gradeVars, validateVars, appVars, pageVars, subjVars,
                             reportVars, paginateVars, seedVars, badgeVars>>
    \/ \E outcome \in ConnectOutcomes(dbManager),
          failed \in SUBSET (1..Len(CreateStatements)) :
          connection_init_database(outcome, failed)
              /\ UNCHANGED <<gradeVars, validateVars, appVars, pageVars, subjVars,
                             reportVars, paginateVars, seedVars, badgeVars>>

----------------------------------------------------------------------------
(* The status badge (utils/ui_components.py) *)

MinBadgeTenths == 380    \* least percentage given to create_status_badge, in tenths
MaxBadgeTenths == 420    \* greatest percentage given to create_status_badge, in tenths

\* percentage = None
NoPercentage == [given |-> FALSE, tenths |-> 0]

BadgePercentages ==
    {NoPercentage} \cup {[given |-> TRUE, tenths |-> t] : t \in MinBadgeTenths..MaxBadgeTenths}

BadgeStatuses == {"Pass", "PASS", "pass", "Fail", "FAIL", "fail", "Absent"}

\* str.lower on the status texts
lower(status) ==
    CASE status \in {"Pass", "PASS", "pass"} -> "pass"
      [] status \in {"Fail", "FAIL", "fail"} -> "fail"
      [] OTHER -> "absent"

\* create_status_badge; the third badge shows the status text
create_status_badge(status, percentage) ==
    IF lower(status) = "pass" \/ (percentage.given /\ percentage.tenths >= 400)
    THEN "Pass"
    ELSE IF lower(status) = "fail" \/ (percentage.given /\ percentage.tenths < 400)
    THEN "Fail"
    ELSE status

\* 4_Student_Report_Card.py: the badge of the report card header
StatusBadge ==
    /\ ~bgOut.done
    /\ bgOut' = [done |-> TRUE,
                 badge |-> create_status_badge(bgIn.status, bgIn.percentage)]
    /\ UNCHANGED bgIn

BadgeNext ==
    StatusBadge
        /\ UNCHANGED <<gradeVars, validateVars, appVars, pageVars, subjVars, reportVars,
                       paginateVars, seedVars, dbVars>>

----------------------------------------------------------------------------
\* the parts of the state that the specification of part `active` leaves alone
Idle(active) ==
    /\ IF active = "grade" THEN TRUE ELSE
             /\ gIn = [pct |-> Rat(0, 10), from |-> NoMarks]
             /\ gOut = [done |-> FALSE, grade |-> ""]
    /\ IF active = "validate" THEN TRUE ELSE
             /\ vIn = [marks_obtained |-> Num(0), max_marks |-> Num(1), assessment_date |-> NoDate]
             /\ vOut = [done |-> FALSE, marks |-> NoResult, date |-> NoResult]
    /\ IF active = "app" THEN TRUE ELSE
             /\ appStudents = {}
             /\ appNextStudentId = 1
             /\ appSubjects = {}
             /\ appMarks = <<>>
             /\ confirm_delete = {}
             /\ appOut = AppOutput("start", FALSE, 0, NoTable)
    /\ IF active = "pages" THEN TRUE ELSE
             /\ storage = [connection |-> "sqlite_manager", schema |-> "init_database"]
             /\ Student = {}
             /\ nextStudentId = 1
             /\ Subject = {}
             /\ nextSubjectId = 1
             /\ Marks = <<>>
             /\ pgConfirm = {}
             /\ pgOut = PlainOutput("start")
    /\ IF active = "subjects" THEN TRUE ELSE
             /\ sbApp = "pages"
             /\ sbRows = <<>>
             /\ sbNextId = 1
             /\ sbOut = SubjectOutput("", FALSE, FALSE, FALSE)
    /\ IF active = "reports" THEN TRUE ELSE
             /\ rpApp = "pages"
             /\ rpStudents = {}
             /\ rpRows = <<>>
             /\ rpOut = ReportOutput("start", <<>>)
    /\ IF active = "paginate" THEN TRUE ELSE
             /\ pnSession = 0
             /\ pnOut = PaginateOutput(<<>>, 1, "start", paginate_data(<<>>, 1, 0))
    /\ IF active = "seed" THEN TRUE ELSE
             /\ sdStore = "app"
             /\ sdStudent = {}
             /\ sdNextStudent = 1
             /\ sdSubject = {}
             /\ sdNextSubject = 1
             /\ sdMarks = <<>>
             /\ sdOut = SeedOutput("start", FALSE, FALSE)
    /\ IF active = "db" THEN TRUE ELSE
             /\ dbManager = "sqlite_manager"
             /\ dbConn = "unconnected"
             /\ dbOut = DbOutput("start", "unconnected", FALSE, FALSE, {}, "-", FALSE)
    /\ IF active = "badge" THEN TRUE ELSE
             /\ bgIn = [status |-> "Pass", percentage |-> NoPercentage]
             /\ bgOut = [done |-> FALSE, badge |-> ""]

InitGrade ==
    /\ gIn \in {i \in GradeInputs : i.from.given => i.from.marks <= i.from.max_marks}
    /\ gOut = [done |-> FALSE, grade |-> ""]
    /\ Idle("grade")

SpecGrade == InitGrade /\ [][GradeNext]_vars

InitValidate ==
    /\ vIn \in [marks_obtained : ProbeValues, max_marks : ProbeValues,
                assessment_date : ProbeDates]
    /\ vOut = [done |-> FALSE, marks |-> NoResult, date |-> NoResult]
    /\ Idle("validate")

SpecValidate == InitValidate /\ [][ValidateNext]_vars

InitApp ==
    /\ appStudents = 1..NumSampleStudents
    /\ appNextStudentId = NumSampleStudents + 1
    /\ appSubjects = 1..NumSampleSubjects
    /\ \E pick \in [{p \in (1..NumSampleStudents) \X (1..NumSampleSubjects) : TRUE}
                        -> SampleMarks] :
          appMarks = SampleRows(SamplePairs(1, 1), pick)
    /\ confirm_delete = {}
    /\ appOut = AppOutput("start", FALSE, 0, NoTable)
    /\ Idle("app")

SpecApp == InitApp /\ [][AppNext]_vars

Init ==
    /\ storage \in StorageConfigs
    /\ Student = {}
    /\ nextStudentId = 1
    /\ Subject = {}
    /\ nextSubjectId = 1
    /\ Marks = <<>>
    /\ pgConfirm = {}
    /\ pgOut = PlainOutput("start")
    /\ Idle("pages")

Spec == Init /\ [][Next]_vars

InitSubjects ==
    /\ sbApp \in {"app.py", "pages"}
    /\ sbRows = IF sbApp = "app.py"
                THEN [i \in 1..NumSampleSubjects |->
                         [id |-> i, name |-> SampleSubjects[i].name,
                          code |-> SampleSubjects[i].code]]
                ELSE <<>>
    /\ sbNextId = Len(sbRows) + 1
    /\ sbOut = SubjectOutput("", FALSE, FALSE, FALSE)
    /\ Idle("subjects")

SpecSubjects == InitSubjects /\ [][SubjectsNext]_vars

InitRank ==
    /\ rpApp \in {"app.py", "pages"}
    /\ rpStudents = 1..MaxRankStudents
    /\ \E pick \in [1..MaxRankStudents -> RankMarks \cup {NoAssessment}] :
          /\ \A marks \in RankMarks :
                Cardinality({st \in 1..MaxRankStudents : pick[st] = marks}) <= MaxTied
          /\ rpRows = RowsFor(rpApp, 1, MaxRankStudents, pick)
    /\ rpOut = ReportOutput("start", <<>>)
    /\ Idle("reports")

SpecRank == InitRank /\ [][RankNext]_vars

InitCard ==
    /\ rpApp = "pages"
    /\ rpStudents = {1}
    /\ \E n \in 0..MaxCardEntries :
          \E marks \in [1..n -> CardMarks] :
             rpRows = [i \in 1..n |-> MarksRow(1, i, marks[i], 100, Today)]
    /\ rpOut = ReportOutput("start", <<>>)
    /\ Idle("reports")

SpecCard == InitCard /\ [][CardNext]_vars

\* a student of the class has no marks or one record out of 100
InitClass ==
    /\ rpApp = "pages"
    /\ rpStudents = 1..MaxClassStudents
    /\ \E pick \in [1..MaxClassStudents -> {<<m, 100>> : m \in CardMarks}
                                            \cup {NoAssessment}] :
          rpRows = RowsFor("pages", 1, MaxClassStudents, pick)
    /\ rpOut = ReportOutput("start", <<>>)
    /\ Idle("reports")

SpecClass == InitClass /\ [][ClassNext]_vars

InitPaginate ==
    /\ pnSession = 0
    /\ pnOut = PaginateOutput(<<>>, 1, "start", paginate_data(<<>>, 1, 0))
    /\ Idle("paginate")

SpecPaginate == InitPaginate /\ [][PaginateNext]_vars

InitSeed ==
    /\ sdStore \in {"app", "mysql", "sqlite_fallback"}
    /\ sdStudent = {}
    /\ sdNextStudent = 1
    /\ sdSubject = {}
    /\ sdNextSubject = 1
    /\ sdMarks = <<>>
    /\ sdOut = SeedOutput("start", FALSE, FALSE)
    /\ Idle("seed")

SpecSeed == InitSeed /\ [][SeedNext]_vars

InitDb ==
    /\ dbManager \in {"sqlite_manager", "mysql_manager"}
    /\ dbConn = "unconnected"
    /\ dbOut = DbOutput("start", "unconnected", FALSE, FALSE, {}, "-", FALSE)
    /\ Idle("db")

SpecDb == InitDb /\ [][DbNext]_vars

InitBadge ==
    /\ bgIn \in [status : BadgeStatuses, percentage : BadgePercentages]
    /\ bgOut = [done |-> FALSE, badge |-> ""]
    /\ Idle("badge")

SpecBadge == InitBadge /\ [][BadgeNext]_vars

----------------------------------------------------------------------------
(* Claims about the grading function (SpecGrade) *)

\* C1: for every percentage p, calculate_grade(p) is the grade of the
\* documented grading system (90 A+, 80 A, 70 B+, 60 B, 50 C+, 40 C, else F).
C1_DocumentedTableApplied ==
    gOut.done => gOut.grade = DocumentedGrade(gIn.pct)

\* C2: for every valid (marks_obtained, max_marks) the grade computed from
\* marks_obtained / max_marks * 100 is one of A+, A, B+, B, C+, C, F.
C2_GradeIsKnownLabel ==
    (gOut.done /\ gIn.from.given) => gOut.grade \in grade_colors

\* Bands from worst to best
GradeRank(grade) ==
    CASE grade = "A+" -> 7
      [] grade = "A" -> 6
      [] grade = "B+" -> 5
      [] grade = "B" -> 4
      [] grade = "C+" -> 3
      [] grade = "C" -> 2
      [] grade = "D" -> 1
      [] OTHER -> 0

\* C3: the grade is monotonic non-decreasing in the percentage: no input
\* with a percentage at most the graded one gets a strictly better grade.
C3_GradeMonotonic ==
    gOut.done =>
        \A q \in GradeInputs :
            RatLE(q.pct, gIn.pct) =>
                GradeRank(calculate_grade(q.pct)) <= GradeRank(gOut.grade)

\* C3 witness: a graded percentage above a lower percentage of a worse band
C3_Witness ==
    /\ gOut.done
    /\ gOut.grade = "B+"
    /\ \E q \in GradeInputs :
          /\ RatLE(q.pct, gIn.pct)
          /\ GradeRank(calculate_grade(q.pct)) < GradeRank(gOut.grade)

----------------------------------------------------------------------------
(* Claims about the validators (SpecValidate) *)

\* C8: for integer inputs m and M, validate_marks(m, M) returns (True, [])
\* exactly when 0 <= m <= M and 1 <= M <= 1000, and otherwise returns False
\* with a non-empty error list.
C8_ValidateMarksExact ==
    (vOut.done /\ vIn.marks_obtained.numeric /\ vIn.max_marks.numeric) =>
        LET m == vIn.marks_obtained.v
            M == vIn.max_marks.v
            ok == 0 <= m /\ m <= M /\ 1 <= M /\ M <= 1000
        IN  /\ ok => (vOut.marks.valid /\ vOut.marks.errors = <<>>)
            /\ ~ok => (~vOut.marks.valid /\ Len(vOut.marks.errors) > 0)

\* C8 witness: marks above an in-range maximum are rejected with one message
C8_Witness ==
    /\ vOut.done
    /\ vIn.marks_obtained.numeric /\ vIn.max_marks.numeric
    /\ vIn.max_marks.v >= 1 /\ vIn.max_marks.v <= 1000
    /\ vIn.marks_obtained.v > vIn.max_marks.v
    /\ ~vOut.marks.valid
    /\ Len(vOut.marks.errors) = 1

----------------------------------------------------------------------------
(* Claims about app.py (SpecApp) *)

RECURSIVE SumMarks(_)
SumMarks(rows) ==
    IF rows = <<>> THEN 0 ELSE Head(rows).marks + SumMarks(Tail(rows))

RECURSIVE SumMaxMarks(_)
SumMaxMarks(rows) ==
    IF rows = <<>> THEN 0 ELSE Head(rows).max_marks + SumMaxMarks(Tail(rows))

\* (sum of marks) / (sum of max_marks) x 100 to one decimal, 0 without rows
PooledTenths(rows) ==
    IF SumMaxMarks(rows) > 0
    THEN RoundTenths(Rat(100 * SumMarks(rows), SumMaxMarks(rows)))
    ELSE 0

\* C4: the overall percentage reported for a student is the pooled ratio
\* (sum of marks_obtained) / (sum of max_marks) x 100 over the student's
\* assessments, not the mean of the per-assessment percentages.
C4_OverallIsPooledRatio ==
    appOut.page \in {"students", "reports"} =>
        \A s \in DOMAIN appOut.table :
            appOut.table[s].avg_performance
                = PooledTenths(RowsOfStudent(appMarks, s))

\* C5: in every reachable store state, also one without mark records, the
\* average and summary computations raise no error and yield 0 when there
\* are no marks.
C5_NoErrorWithoutMarks ==
    /\ ~appOut.raised
    /\ appMarks = <<>> => appOut.average = 0

\* C6: every stored mark record satisfies 0 <= marks_obtained <= max_marks
\* and max_marks > 0.
C6_StoredMarksWithinMax ==
    \A i \in 1..Len(appMarks) :
        /\ 0 <= appMarks[i].marks
        /\ appMarks[i].marks <= appMarks[i].max_marks
        /\ appMarks[i].max_marks > 0

----------------------------------------------------------------------------
(* The marks page, the report tables and deletion, under Spec.              *)

\* the last run was a single-entry or update submission that a validator rejected
RejectedSubmission ==
    /\ pgOut.page \in {"enter_marks", "update_marks"}
    /\ ~(pgOut.is_valid_marks /\ pgOut.is_valid_date)

\* the stored row passes validate_marks and validate_assessment_date
AcceptedByBoth(row) ==
    /\ validate_marks(Num(row.marks_obtained), Num(row.max_marks)).valid
    /\ validate_assessment_date(ADate(row.assessment_date)).valid

\* C7: every mark record added or changed through the marks page (single entry,
\* update, bulk entry) was accepted by validate_marks and by
\* validate_assessment_date, and a submission that either validator rejects
\* leaves the stored marks unchanged.
C7_OnlyValidatedMarksStored ==
    [][/\ RejectedSubmission' => Marks' = Marks
       /\ \A i \in 1..Len(Marks') :
             (i > Len(Marks) \/ Marks'[i] # Marks[i]) => AcceptedByBoth(Marks'[i])]_vars

\* an update that only the date validator rejects, with marks in the store
C7_Witness ==
    /\ pgOut.page = "update_marks"
    /\ pgOut.is_valid_marks /\ ~pgOut.is_valid_date
    /\ Len(Marks) > 0

\* C9: every row of the report card's subject table and of the class page's
\* "All Students Performance" table is labelled "Pass" exactly when its
\* percentage is at least 40, whatever its grade.
C9_PassIffAtLeast40 ==
    pgOut.page \in {"report_card", "class_analytics"} =>
        \A i \in 1..Len(pgOut.table) :
            /\ pgOut.table[i].status \in {"Pass", "Fail"}
            /\ pgOut.table[i].status = "Pass" <=> pgOut.table[i].percentage >= 400

\* a report card with a row at exactly 40% and a row below it
C9_Witness ==
    /\ pgOut.page = "report_card"
    /\ \E i, j \in 1..Len(pgOut.table) :
          /\ pgOut.table[i].percentage = 400 /\ pgOut.table[i].status = "Pass"
          /\ pgOut.table[j].percentage < 400 /\ pgOut.table[j].status = "Fail"

\* C10: once a student or a subject has been deleted, no mark record refers to
\* it, in every storage configuration.
C10_DeleteRemovesMarks ==
    /\ (pgOut.page = "delete_student" /\ pgOut.success) =>
          \A i \in 1..Len(Marks) : Marks[i].student_id # pgOut.target
    /\ (pgOut.page = "delete_subject" /\ pgOut.success) =>
          \A i \in 1..Len(Marks) : Marks[i].subject_id # pgOut.target

----------------------------------------------------------------------------
(* Subject names (SpecSubjects) *)

----------------------------------------------------------------------------
(* Rankings (SpecRank) *)

\* the limit of the ranking a run displayed
LimitOf(report) ==
    CASE report = "top_students" -> TopStudentsLimit
      [] report = "export_top_students" -> ExportStudentsLimit
      [] OTHER -> TopPerformersLimit

Min(a, b) == IF a < b THEN a ELSE b

C13_RankingDeterministic ==
    [][(rpOut'.report = rpOut.report /\ rpRows' = rpRows) =>
          rpOut'.list = rpOut.list]_vars

----------------------------------------------------------------------------
(* The report card's analysis (SpecCard) *)

\* the entries of a list, as a set
Entries(list) == {list[i] : i \in 1..Len(list)}

\* C14: the strengths of a report card are the (up to) 3 subject entries with
\* the highest percentage, highest first; the improvement areas are subject
\* entries below 60%, all of them when they are at most 3 and else the 3
\* weakest, weakest first.
C14_StrengthsAndImprovementAreas ==
    rpOut.report = "report_card" =>
        LET details == get_student_summary(rpRows, 1).subject_details
            strengths == rpOut.list.strengths
            improvement == rpOut.list.improvement
            below60 == {e \in Entries(details) : e.percentage < 600}
        IN  /\ Len(strengths) = Min(3, Len(details))
            /\ Entries(strengths) \subseteq Entries(details)
            /\ Cardinality(Entries(strengths)) = Len(strengths)
            /\ \A i, j \in 1..Len(strengths) :
                  i < j => strengths[i].percentage >= strengths[j].percentage
            /\ \A e \in Entries(details) \ Entries(strengths) :
                  \A i \in 1..Len(strengths) : e.percentage <= strengths[i].percentage
            /\ Len(improvement) = Min(3, Cardinality(below60))
            /\ Entries(improvement) \subseteq below60
            /\ Cardinality(Entries(improvement)) = Len(improvement)
            /\ \A i, j \in 1..Len(improvement) :
                  i < j => improvement[i].percentage <= improvement[j].percentage
            /\ \A e \in below60 \ Entries(improvement) :
                  \A i \in 1..Len(improvement) : e.percentage >= improvement[i].percentage

\* records 90/100 and 40/100: the first is the top strength, the second the
\* only improvement area
C14_Witness ==
    /\ rpOut.report = "report_card"
    /\ Len(rpRows) = 2
    /\ rpRows[1].marks_obtained = 90 /\ rpRows[2].marks_obtained = 40
    /\ rpOut.list.strengths[1].subject = 1
    /\ Len(rpOut.list.improvement) = 1
    /\ rpOut.list.improvement[1].subject = 2

----------------------------------------------------------------------------
(* Class analytics (SpecClass) *)

\* the students of the class that have at least one mark record
StudentsWithData == {st \in rpStudents : RowsOf(rpRows, st) # <<>>}

\* the overall percentage of the student's records is at least 40
AtLeast40(student_id) ==
    get_student_summary(rpRows, student_id).overall_percentage >= 400

\* C15: pass_count is the number of students with at least one mark whose
\* overall percentage is at least 40, fail_count is the remainder, the two sum
\* to total_students, and students without marks are counted in neither.
C15_PassFailCounts ==
    rpOut.report = "class_analytics" =>
        LET shown == rpOut.list
        IN  /\ shown.total_students = Cardinality(StudentsWithData)
            /\ shown.pass_count =
                  Cardinality({st \in StudentsWithData : AtLeast40(st)})
            /\ shown.fail_count =
                  Cardinality({st \in StudentsWithData : ~AtLeast40(st)})
            /\ shown.pass_count + shown.fail_count = shown.total_students
            /\ shown.pass_count =
                  Cardinality({i \in 1..Len(shown.all_students_data) :
                                  shown.all_students_data[i].status = "Pass"})

\* a class with a passing student, a failing student and a student without marks
C15_Witness ==
    /\ rpOut.report = "class_analytics"
    /\ rpOut.list.pass_count = 1 /\ rpOut.list.fail_count = 1
    /\ Cardinality(rpStudents) = 3

\* C16: the class grade histogram counts each student with data once, by the
\* student's overall grade: the A, B, C and F counts sum to total_students.
C16_HistogramCountsEveryStudent ==
    rpOut.report = "class_analytics" =>
        LET shown == rpOut.list
            rows == shown.all_students_data
            count(grades) == Cardinality({i \in 1..Len(rows) : rows[i].grade \in grades})
        IN  /\ shown.grades.a_count = count({"A+", "A"})
            /\ shown.grades.b_count = count({"B+", "B"})
            /\ shown.grades.c_count = count({"C+", "C"})
            /\ shown.grades.f_count = count({"F"})
            /\ shown.grades.a_count + shown.grades.b_count + shown.grades.c_count
                  + shown.grades.f_count = shown.total_students

\* a class of three students with data in three different bands, one of them A+
C16_Witness ==
    /\ rpOut.report = "class_analytics"
    /\ rpOut.list.total_students = 3
    /\ rpOut.list.grades.a_count = 1 /\ rpOut.list.grades.c_count = 1
    /\ rpOut.list.grades.f_count = 1
    /\ \E i \in 1..3 : rpOut.list.all_students_data[i].grade = "A+"

----------------------------------------------------------------------------
(* Bulk entry, confirmation and purity of the pages (Spec) *)

\* the step stores a new record of these marks for the student
StoredFor(student_id, subject_id, marks_obtained) ==
    \E i \in (Len(Marks) + 1)..Len(Marks') :
        /\ Marks'[i].student_id = student_id
        /\ Marks'[i].subject_id = subject_id
        /\ Marks'[i].marks_obtained = marks_obtained

\* C17: when the user presses "Submit All Marks" in the prepared bulk form, a
\* mark record is stored for every listed student whose entered marks are
\* above 0, and for no student whose entered marks are 0.
C17_BulkEntryStores ==
    [][\A u \in 1..MaxSubjectId, M \in PageMaxMarksInputs, d \in PageDateInputs,
          marks_data \in [Student -> {0, 2}] :
          BulkEntryRun("Submit All Marks", u, M, d, marks_data) =>
              \A st \in Student :
                  marks_data[st] > 0 <=> StoredFor(st, u, marks_data[st])]_vars

\* C18: delete_student / delete_subject runs for an entity only after two
\* separate confirmation actions for it: the step that deletes it follows an
\* earlier step that recorded a confirmation for that entity.
C18_DoubleConfirmation ==
    [][/\ \A st \in Student \ Student' : <<"delete_student", st>> \in pgConfirm
       /\ \A u \in Subject \ Subject' : <<"delete_subject", u>> \in pgConfirm]_vars

\* the last run displayed a report
PageReportShown == pgOut.page \in {"report_card", "class_analytics"}
AppReportShown == appOut.page \in {"dashboard", "reports", "analytics"}

C20_ReferentialIntegrity ==
    \A i \in 1..Len(Marks) :
        /\ Marks[i].student_id \in Student
        /\ Marks[i].subject_id \in Subject

----------------------------------------------------------------------------
(* Deleting a student in app.py (SpecApp) *)

\* C21: in app.py a student is deleted only on a second delete click: a
\* "Delete Student" submit for student X while confirm_delete is not X only
\* records confirm_delete = X and deletes nothing; a student X leaves the store
\* only in a step that starts with confirm_delete = X, that step removes the
\* marks of X and of nobody else and deletes no other student, and after it
\* confirm_delete is not set.
C21_DeleteOnSecondClick ==
    [][/\ \A X \in 1..MaxAppStudentId :
              (DeleteStudentSubmit(X) /\ confirm_delete # {X}) =>
                  /\ confirm_delete' = {X}
                  /\ appStudents' = appStudents
                  /\ appMarks' = appMarks
       /\ \A X \in appStudents \ appStudents' :
              /\ confirm_delete = {X}
              /\ appStudents' = appStudents \ {X}
              /\ appMarks' = SelectSeq(appMarks, LAMBDA r : r.student_id # X)
              /\ confirm_delete' = {}]_vars

\* student 1 has been deleted while student 2, the other student, is still
\* stored and now has a pending confirmation of its own
C21_Witness ==
    /\ 1 \notin appStudents
    /\ 2 \in appStudents
    /\ confirm_delete = {2}

----------------------------------------------------------------------------
(* Pagination (SpecPaginate) *)

\* data[a:b] of Python for 0 <= a <= b
Slice(data, a, b) ==
    LET lo == IF a <= Len(data) THEN a ELSE Len(data)
        hi == IF b <= Len(data) THEN b ELSE Len(data)
    IN  [i \in 1..(hi - lo) |-> data[lo + i]]

\* C22: pagination stays in bounds: after any sequence of button clicks and of
\* runs with another page size or data length, for non-empty data the last
\* paginate_data call returned total_pages = ceil(len(data) / page_size) and a
\* current_page with 1 <= current_page <= total_pages, session state holds that
\* page, and the returned slice is non-empty, has at most page_size items and
\* equals data[(current_page - 1) * page_size : current_page * page_size].
C22_PaginationInBounds ==
    pnOut.data # <<>> =>
        /\ pnOut.total_pages * pnOut.page_size >= Len(pnOut.data)
        /\ (pnOut.total_pages - 1) * pnOut.page_size < Len(pnOut.data)
        /\ 1 <= pnOut.current_page
        /\ pnOut.current_page <= pnOut.total_pages
        /\ pnSession = pnOut.current_page
        /\ pnOut.paginated_data # <<>>
        /\ Len(pnOut.paginated_data) <= pnOut.page_size
        /\ pnOut.paginated_data =
              Slice(pnOut.data, (pnOut.current_page - 1) * pnOut.page_size,
                    pnOut.current_page * pnOut.page_size)

\* a run whose data is shorter than the stored page reaches: two pages after
\* "Last" was pressed on a longer list, the last of them not full
C22_Witness ==
    /\ pnOut.clicked = "none"
    /\ pnOut.total_pages = 2
    /\ pnOut.current_page = 2
    /\ pnOut.page_size = 3
    /\ Len(pnOut.paginated_data) = 1

----------------------------------------------------------------------------
(* Confirmation state of the management pages (Spec) *)

\* C23: after a student or subject is deleted on its management page the
\* confirmation flag that authorised the deletion is no longer set, and a run
\* of the delete page that leaves its target stored (declined, or the delete
\* call failed) leaves no flag set for it, so that a later rerun deletes
\* nothing without a new confirmation.
C23_ConfirmationCleared ==
    [][/\ \A st \in Student \ Student' : <<"delete_student", st>> \notin pgConfirm'
       /\ \A u \in Subject \ Subject' : <<"delete_subject", u>> \notin pgConfirm'
       /\ \A st \in Student \cap Student' :
              (pgOut'.page = "delete_student" /\ pgOut'.target = st) =>
                  <<"delete_student", st>> \notin pgConfirm'
       /\ \A u \in Subject \cap Subject' :
              (pgOut'.page = "delete_subject" /\ pgOut'.target = u) =>
                  <<"delete_subject", u>> \notin pgConfirm']_vars

----------------------------------------------------------------------------
(* Sample-data seeding (SpecSeed) *)

----------------------------------------------------------------------------
(* The database helpers (SpecDb) *)

\* C25: the database helpers never raise and report a failure by their
\* return value: when the statement fails, or no connection could be
\* established, execute_query returns False, fetch_all returns [] and
\* fetch_one returns None, for the SQLite manager and for the MySQL manager on
\* MySQL and on its SQLite fallback.
C25_HelpersNeverRaise ==
    dbOut.helper \in DbHelpers =>
        /\ ~dbOut.raised
        /\ (dbOut.failure \/ dbOut.conn = "none") =>
               dbOut.returned = FailureValue(dbOut.helper)

\* C26: init_database of db/connection.py returns True only if every CREATE
\* TABLE and CREATE INDEX statement was executed successfully, and returns
\* False if any of them fails.
C26_InitDatabaseReportsFailure ==
    dbOut.helper = "init_database" =>
        /\ dbOut.returned = "True" => dbOut.failed = {}
        /\ dbOut.failed # {} => dbOut.returned = "False"

----------------------------------------------------------------------------
(* The status badge (SpecBadge) *)

\* C27: when a percentage is supplied, create_status_badge returns the Pass
\* badge if and only if percentage >= 40 and the Fail badge if and only if
\* percentage < 40, whatever the status text is.
C27_BadgeFollowsThreshold ==
    (bgOut.done /\ bgIn.percentage.given) =>
        /\ bgOut.badge = "Pass" <=> bgIn.percentage.tenths >= 400
        /\ bgOut.badge = "Fail" <=> bgIn.percentage.tenths < 400

============================================================================
